---- MODULE Spec2Model ----
(***************************************************************************)
(* A model of the provider gateway of Vibra-Server (src/music_extractor.py, *)
(* class MusicExtractor).  One gateway operation runs per request; every    *)
(* upstream call (ytmusicapi, yt-dlp) answers nondeterministically.         *)
(*                                                                          *)
(* Python values:                                                           *)
(*   str whose characters the code inspects (error texts, queries,          *)
(*       categories)           -> a sequence of one-character strings       *)
(*   str that is only passed on (ids, urls, codecs, tags) -> a TLA+ string  *)
(*   dict                      -> a record holding exactly the keys present *)
(*   list                      -> a sequence                                *)
(*   None                      -> NoneStr / NoneDict by the slot it is in   *)
(***************************************************************************)
EXTENDS Integers, Sequences, FiniteSets, TLC

VARIABLES
    ytmusic,    \* self.ytmusic is not None
    pc,         \* "idle": no request running; "returned": an operation returned
    op,         \* the gateway operation that ran
    args,       \* its arguments
    invoked,    \* the gateway operations a handler of app.py called, in order
    calls,      \* the upstream calls it made, in order
    result,     \* what it handed to its caller
    ydl_opts,   \* self.ydl_opts, the options dict every request reads
    cookie_file,    \* what the file youtube_cookies.txt holds
    requests    \* the requests handled side by side, one per handler thread

vars == <<ytmusic, pc, op, args, invoked, calls, result, ydl_opts, cookie_file, requests>>

----------------------------------------------------------------------------
(* Bounds of the model *)

MaxItems == 3       \* longest batch a search / playlist call answers with
MaxLimit == 3       \* largest result-count limit a request carries
MaxFormats == 2     \* longest formats list of an extraction entry
MaxHome == 2        \* longest chart / popularity list and home feed
MaxTermItems == 1   \* longest batch one homepage fallback search answers with
MaxCookies == 2      \* most pieces of a YOUTUBE_COOKIES string
MaxSeconds == 3725  \* int durations run from -MaxSeconds to MaxSeconds

----------------------------------------------------------------------------
(* Python values *)

NoneStr == "None"
NoneDict == [none |-> TRUE]

Get(d, k, default) == IF k \in DOMAIN d THEN d[k] ELSE default

\* the sequences over S of length at most n
SeqsUpTo(S, n) == UNION {[1..k -> S] : k \in 0..n}

\* s[:k] of Python, k of either sign
SliceTo(s, k) ==
    LET n == Len(s)
        hi == IF k < 0 THEN (IF n + k < 0 THEN 0 ELSE n + k)
              ELSE (IF k > n THEN n ELSE k)
    IN  SubSeq(s, 1, hi)

(* Texts *)

UpperCase ==
    <<"A", "B", "C", "D", "E", "F", "G", "H", "I", "J", "K", "L", "M", "N", "O", "P", "Q", "R", "S", "T", "U", "V", "W", "X", "Y", "Z">>
LowerCase ==
    <<"a", "b", "c", "d", "e", "f", "g", "h", "i", "j", "k", "l", "m", "n", "o", "p", "q", "r", "s", "t", "u", "v", "w", "x", "y", "z">>

LowerChar(c) ==
    IF \E i \in 1..Len(UpperCase) : UpperCase[i] = c
    THEN LowerCase[CHOOSE i \in 1..Len(UpperCase) : UpperCase[i] = c]
    ELSE c

Lower(t) == [i \in 1..Len(t) |-> LowerChar(t[i])]

Contains(t, sub) ==
    \E i \in 0..(Len(t) - Len(sub)) : SubSeq(t, i + 1, i + Len(sub)) = sub

UpperChar(c) ==
    IF \E i \in 1..Len(LowerCase) : LowerCase[i] = c
    THEN UpperCase[CHOOSE i \in 1..Len(LowerCase) : LowerCase[i] = c]
    ELSE c

IsLetter(c) == \E i \in 1..Len(LowerCase) : LowerCase[i] = c \/ UpperCase[i] = c

\* str.title(): a letter after a letter is lowered, any other letter raised
TitleCase(t) ==
    [i \in 1..Len(t) |-> IF i > 1 /\ IsLetter(t[i - 1]) THEN LowerChar(t[i])
                         ELSE UpperChar(t[i])]

\* str.strip(), of the blanks
RECURSIVE Strip(_)
Strip(t) ==
    IF t = <<>> THEN t
    ELSE IF Head(t) = " " THEN Strip(Tail(t))
    ELSE IF t[Len(t)] = " " THEN Strip(SubSeq(t, 1, Len(t) - 1))
    ELSE t

\* str.find(sub) + 1: the place of the first occurrence, 0 when there is none
Find(t, sub) ==
    IF Contains(t, sub)
    THEN 1 + CHOOSE i \in 0..(Len(t) - Len(sub)) :
                 /\ SubSeq(t, i + 1, i + Len(sub)) = sub
                 /\ \A j \in 0..(i - 1) : SubSeq(t, j + 1, j + Len(sub)) # sub
    ELSE 0

\* str.split(sep): the parts between the occurrences taken from the left
RECURSIVE Split(_, _)
Split(t, sep) ==
    IF Find(t, sep) = 0 THEN <<t>>
    ELSE <<SubSeq(t, 1, Find(t, sep) - 1)>>
             \o Split(SubSeq(t, Find(t, sep) + Len(sep), Len(t)), sep)

\* str.split(sep, 1), of a text that holds sep
SplitOnce(t, sep) ==
    <<SubSeq(t, 1, Find(t, sep) - 1), SubSeq(t, Find(t, sep) + Len(sep), Len(t))>>

SignInMarker ==
    <<"S", "i", "g", "n", " ", "i", "n", " ", "t", "o", " ", "c", "o", "n", "f", "i", "r", "m">>
BotMarker ==
    <<"b", "o", "t">>

\* "Sign in to confirm" in str(e) or "bot" in str(e).lower()
IsBotDetection(t) == Contains(t, SignInMarker) \/ Contains(Lower(t), BotMarker)

(* Error texts of the upstream providers *)
ErrSignIn ==
    <<"S", "i", "g", "n", " ", "i", "n", " ", "t", "o", " ", "c", "o", "n", "f", "i", "r", "m">>
ErrBot ==
    <<"4", "2", "9", " ", "B", "o", "t">>
ErrNet ==
    <<"t", "i", "m", "e", "d", " ", "o", "u", "t">>
ErrSignInLower ==
    <<"s", "i", "g", "n", " ", "i", "n">>
(* Error texts of the interpreter *)
ErrTypeNone ==
    <<"a", "r", "g", "u", "m", "e", "n", "t", " ", "o", "f", " ", "t", "y", "p", "e", " ", "'", "N", "o", "n", "e", "T", "y", "p", "e", "'", " ", "i", "s", " ", "n", "o", "t", " ", "i", "t", "e", "r", "a", "b", "l", "e">>
ErrKeyUrl ==
    <<"'", "u", "r", "l", "'">>

(* Outcome of one upstream call *)
Ok(v) == [ok |-> TRUE, val |-> v]
Fail(t) == [ok |-> FALSE, err |-> t]

(* Outcome of one function of the gateway: a returned value or a raised      *)
(* exception, with the upstream calls made on the way.                       *)
Ret(v, cs) == [exc |-> FALSE, val |-> v, calls |-> cs]
Raise(t, cs) == [exc |-> TRUE, err |-> t, calls |-> cs]

Call(fn, opts, arg, out) == [fn |-> fn, opts |-> opts, arg |-> arg, out |-> out]

----------------------------------------------------------------------------
(* What the upstream providers can answer with *)

NoneText == <<NoneStr>>     \* None in a slot that otherwise holds a text
TitleX == <<"x">>

Ids == {"a", "b"}
Queries == {<<"q">>, <<"r">>}
Limits == (0 - 1)..MaxLimit

\* raw ytmusicapi results
YmA == [videoId |-> "a", artists |-> <<[name |-> "A"]>>]
YmB == [videoId |-> "b", artists |-> <<>>]
YmNoId == [artists |-> <<[name |-> "A"]>>]
YmBad == [videoId |-> "a", artists |-> <<NoneDict>>]
\* a first artist without a name
YmNoName == [videoId |-> "a", artists |-> <<[id |-> "UC1"]>>]
YmEntries == {YmA, YmB, YmNoId, YmBad}
YmBatches == SeqsUpTo(YmEntries, MaxItems)

\* raw yt-dlp formats, entries and infos
FmtVideo == [acodec |-> "none", quality |-> 9, url |-> "v9"]
FmtOpus == [acodec |-> "opus", quality |-> 1, url |-> "o1"]
FmtAac == [acodec |-> "aac", url |-> "a0"]
FmtNoUrl == [acodec |-> "mp4a", quality |-> 2]
\* a null quality: the key is there, its value is None
FmtNull == [acodec |-> "mp3", nulls |-> {"quality"}, url |-> "n0"]
Formats == {FmtVideo, FmtOpus, FmtAac, FmtNoUrl, FmtNull}
FormatLists == SeqsUpTo(Formats, MaxFormats)

EntA == [id |-> "a", title |-> TitleX, url |-> "ua"]
EntB == [id |-> "b", title |-> TitleX, formats |-> <<FmtVideo, FmtOpus>>]
EntNoId == [title |-> TitleX]
EntBadTitle == [id |-> "a", title |-> NoneText]
BatchEntries == {EntA, EntB, EntNoId, EntBadTitle, NoneDict}
Batches == SeqsUpTo(BatchEntries, MaxItems)

Infos ==
    {[id |-> "a", title |-> TitleX, formats |-> fs] : fs \in FormatLists}
    \cup {EntA, EntNoId, EntBadTitle, [id |-> "b", title |-> TitleX], NoneDict}

\* every call can fail, with a bot-detection text or another one
Failures == {Fail(ErrNet), Fail(ErrBot)}
AllFailures == {Fail(ErrNet), Fail(ErrBot), Fail(ErrSignIn), Fail(ErrSignInLower)}

YmSearchOutcomes == Failures \cup {Ok(b) : b \in YmBatches}
\* a search or playlist extraction: nothing, a dict without entries, or entries
YdlListOutcomes ==
    Failures \cup {Ok(NoneDict), Ok([id |-> "p"])}
    \cup {Ok([id |-> "p", entries |-> b]) : b \in Batches}
YdlInfoOutcomes == AllFailures \cup {Ok(i) : i \in Infos}
\* the search get_song_details makes: only the first hit is read
YmDetailOutcomes ==
    Failures \cup {Ok(<<>>), Ok(<<YmB, YmA>>), Ok(<<YmNoName>>)}
    \cup {Ok(<<e>>) : e \in YmEntries}

----------------------------------------------------------------------------
(* format_duration *)

\* A duration is None, an int, a float (known by twice its value, or
\* infinite) or a str.
DurNone == [kind |-> "none"]
DurInt(n) == [kind |-> "int", n |-> n]
DurFloat(twice) == [kind |-> "float", twice |-> twice]
DurInf == [kind |-> "inf"]
DurStr(t) == [kind |-> "str", text |-> t]

Unknown == <<"U", "n", "k", "n", "o", "w", "n">>
ErrOverflow == <<"c", "a", "n", "n", "o", "t", " ", "c", "o", "n", "v", "e", "r", "t", " ", "f", "l", "o", "a", "t", " ", "i", "n", "f", "i", "n", "i", "t", "y", " ", "t", "o", " ", "i", "n", "t", "e", "g", "e", "r">>

DigitChars == <<"0", "1", "2", "3", "4", "5", "6", "7", "8", "9">>
IsDigit(c) == \E d \in 1..10 : DigitChars[d] = c
DigitValue(c) == (CHOOSE d \in 1..10 : DigitChars[d] = c) - 1

\* str(n) for n >= 0
RECURSIVE Decimal(_)
Decimal(n) == IF n < 10 THEN <<DigitChars[n + 1]>>
              ELSE Append(Decimal(n \div 10), DigitChars[(n % 10) + 1])

\* f"{n:02d}" for n >= 0
Format02d(n) == IF n < 10 THEN <<"0">> \o Decimal(n) ELSE Decimal(n)

\* the value of a run of digits
RECURSIVE DigitsValue(_)
DigitsValue(t) == IF t = <<>> THEN 0
                  ELSE 10 * DigitsValue(SubSeq(t, 1, Len(t) - 1)) + DigitValue(t[Len(t)])

\* int(duration): [ok, n], not ok for ValueError and TypeError, and
\* [overflow] for the OverflowError of an infinite float
ToInt(duration) ==
    CASE duration.kind = "int" -> [ok |-> TRUE, n |-> duration.n]
      [] duration.kind = "float" ->
            [ok |-> TRUE, n |-> IF duration.twice >= 0 THEN duration.twice \div 2
                                ELSE 0 - ((0 - duration.twice) \div 2)]
      [] duration.kind = "str" ->
            LET t == duration.text
                signed == t # <<>> /\ t[1] \in {"-", "+"}
                digits == IF signed THEN Tail(t) ELSE t
            IN  IF digits # <<>> /\ \A i \in 1..Len(digits) : IsDigit(digits[i])
                THEN [ok |-> TRUE, n |-> IF signed /\ t[1] = "-"
                                         THEN 0 - DigitsValue(digits)
                                         ELSE DigitsValue(digits)]
                ELSE [ok |-> FALSE]
      [] duration.kind = "inf" -> [ok |-> FALSE, overflow |-> TRUE]
      [] OTHER -> [ok |-> FALSE]

\* "not duration"
Falsy(duration) ==
    \/ duration.kind = "none"
    \/ duration.kind = "int" /\ duration.n = 0
    \/ duration.kind = "float" /\ duration.twice = 0
    \/ duration.kind = "str" /\ duration.text = <<>>

\* format_duration with the minutes reduced by two hours, not by one
format_duration_minutes_unreduced(duration) ==
    IF Falsy(duration) THEN [exc |-> FALSE, val |-> Unknown]
    ELSE LET converted == ToInt(duration)
         IN  IF ~converted.ok
             THEN IF "overflow" \in DOMAIN converted
                  THEN [exc |-> TRUE, err |-> ErrOverflow]
                  ELSE [exc |-> FALSE, val |-> Unknown]
             ELSE LET hours == converted.n \div 3600
                      minutes == (converted.n % 7200) \div 60
                      seconds == converted.n % 60
                  IN  [exc |-> FALSE,
                       val |-> IF hours > 0
                               THEN Format02d(hours) \o <<":">> \o Format02d(minutes)
                                        \o <<":">> \o Format02d(seconds)
                               ELSE Format02d(minutes) \o <<":">> \o Format02d(seconds)]

format_duration(duration) ==
    IF Falsy(duration) THEN [exc |-> FALSE, val |-> Unknown]
    ELSE LET converted == ToInt(duration)
         IN  IF ~converted.ok
             THEN IF "overflow" \in DOMAIN converted
                  THEN [exc |-> TRUE, err |-> ErrOverflow]
                  ELSE [exc |-> FALSE, val |-> Unknown]
             ELSE LET hours == converted.n \div 3600
                      minutes == (converted.n % 3600) \div 60
                      seconds == converted.n % 60
                  IN  [exc |-> FALSE,
                       val |-> IF hours > 0
                               THEN Format02d(hours) \o <<":">> \o Format02d(minutes)
                                        \o <<":">> \o Format02d(seconds)
                               ELSE Format02d(minutes) \o <<":">> \o Format02d(seconds)]

\* the durations format_duration is called with
Durations ==
    {DurNone, DurInf, DurFloat(0), DurFloat(1), DurFloat(131), DurFloat(0 - 11)}
    \cup {DurInt(n) : n \in (0 - MaxSeconds)..MaxSeconds}
    \cup {DurInt(86399), DurInt(360000), DurInt(0 - 86400)}
    \cup {DurStr(t) : t \in {<<>>, <<"6", "5">>, <<"-", "5">>, <<"a", "b", "c">>,
                             <<"6", ".", "5">>}}

\* the raw titles and entries extract_song_metadata is called with
UploaderU == <<"U">>
NormTitles ==
    { <<"A", " ", "-", " ", "B">>,
      <<"a", " ", "b", "y", " ", "b">>,
      <<"A", " ", "-", " ", "b", " ", "b", "y", " ", "c">>,
      <<"a", " ", "b", "y", " ", "b", " ", "b", "y", " ", "c">>,
      <<"R", "u", "b", "y">>,
      <<"x">>,
      <<"A", " ", "B", "Y", " ", "B">>,
      <<"a", " ", "b", "y", " ", "b", "y", " ", "b">>,
      <<"A", " ", " ", "-", " ", "B">>,
      <<"A", " ", "-", " ", "B", " ", "-", " ", "C">>,
      <<"a", " ", " ", "b", "y", " ", " ", "b">>,
      <<"b", "y", " ", "a">>,
      <<"A", "-", "B">> }
NormEntries ==
    {[id |-> "a", title |-> t] : t \in NormTitles}
    \cup {[id |-> "a", title |-> t, uploader |-> UploaderU] : t \in NormTitles}
    \cup {[id |-> "a", title |-> TitleX, duration |-> d] :
              d \in {DurInt(65), DurInt(3725), DurInt(0), DurInt(0 - 5), DurInf}}
    \cup {[id |-> "a", uploader |-> UploaderU], EntBadTitle}
    \cup {[id |-> "a", title |-> TitleX, formats |-> fs] : fs \in FormatLists}

----------------------------------------------------------------------------
(* Record normalizers *)

\* (x.get('quality', 0) or 0); a null quality counts like a missing one
QualityKey(f) == Get(f, "quality", 0)

\* an insertion that puts a format in front of the formats of its own quality
InsertByQualityUnstable(sorted, f) ==
    LET k == Cardinality({i \in 1..Len(sorted) : QualityKey(sorted[i]) > QualityKey(f)})
    IN  SubSeq(sorted, 1, k) \o <<f>> \o SubSeq(sorted, k + 1, Len(sorted))

\* list.sort(key=..., reverse=True) is stable: among equal keys the earlier
\* element stays first
InsertByQuality(sorted, f) ==
    LET k == Cardinality({i \in 1..Len(sorted) : QualityKey(sorted[i]) >= QualityKey(f)})
    IN  SubSeq(sorted, 1, k) \o <<f>> \o SubSeq(sorted, k + 1, Len(sorted))

RECURSIVE SortByQuality(_)
SortByQuality(fs) ==
    IF fs = <<>> THEN <<>>
    ELSE InsertByQuality(SortByQuality(SubSeq(fs, 1, Len(fs) - 1)), fs[Len(fs)])

HasAudio(f) == Get(f, "acodec", NoneStr) # "none"

\* the audio url of an entry: [exc, val] or [exc, err]
select_audio_url(entry) ==
    IF entry = NoneDict THEN [exc |-> TRUE, err |-> ErrTypeNone]
    ELSE IF "url" \in DOMAIN entry THEN [exc |-> FALSE, val |-> entry.url]
    ELSE IF "formats" \in DOMAIN entry THEN
        LET audio_formats == SortByQuality(SelectSeq(entry.formats, HasAudio))
        IN  IF audio_formats = <<>> THEN [exc |-> FALSE, val |-> NoneStr]
            ELSE IF "url" \in DOMAIN audio_formats[1]
                 THEN [exc |-> FALSE, val |-> audio_formats[1].url]
                 ELSE [exc |-> TRUE, err |-> ErrKeyUrl]
    ELSE [exc |-> FALSE, val |-> NoneStr]

DashSeparator == <<" ", "-", " ">>
BySeparator == <<" ", "b", "y", " ">>
ByWord == <<"b", "y">>
UnknownArtist == <<"U", "n", "k", "n", "o", "w", "n", " ", "A", "r", "t", "i", "s", "t">>
UnknownTitle == <<"U", "n", "k", "n", "o", "w", "n", " ", "T", "i", "t", "l", "e">>

\* the title / artist parsing with the "by" form tried before the dash
SplitArtistTitleByFirst(title, artist) ==
    IF Contains(Lower(title), ByWord) /\ Len(Split(Lower(title), BySeparator)) = 2
    THEN [title |-> TitleCase(Strip(Split(Lower(title), BySeparator)[1])),
          artist |-> TitleCase(Strip(Split(Lower(title), BySeparator)[2]))]
    ELSE IF Contains(title, DashSeparator)
    THEN [title |-> Strip(SplitOnce(title, DashSeparator)[2]),
          artist |-> Strip(SplitOnce(title, DashSeparator)[1])]
    ELSE [title |-> title, artist |-> artist]

\* "if ' - ' in title: ... elif 'by' in title.lower(): ..."
SplitArtistTitle(title, artist) ==
    IF Contains(title, DashSeparator)
    THEN [title |-> Strip(SplitOnce(title, DashSeparator)[2]),
          artist |-> Strip(SplitOnce(title, DashSeparator)[1])]
    ELSE IF Contains(Lower(title), ByWord)
    THEN LET parts == Split(Lower(title), BySeparator)
         IN  IF Len(parts) = 2
             THEN [title |-> TitleCase(Strip(parts[1])),
                   artist |-> TitleCase(Strip(parts[2]))]
             ELSE [title |-> title, artist |-> artist]
    ELSE [title |-> title, artist |-> artist]

\* extract_song_metadata has no handler of its own: a None entry or a null
\* title raises TypeError.  Of the record, the keys id, title, artist,
\* duration_string and audio_url are modelled; the record carries no source key.
SongRecord(entry, audio, parsed, duration_string) ==
    IF audio.exc THEN audio
    ELSE IF Get(entry, "title", UnknownTitle) = NoneText
    THEN [exc |-> TRUE, err |-> ErrTypeNone]
    ELSE IF duration_string.exc THEN duration_string
    ELSE [exc |-> FALSE,
          val |-> [id |-> Get(entry, "id", NoneStr),
                   title |-> parsed.title,
                   artist |-> parsed.artist,
                   duration_string |-> duration_string.val,
                   audio_url |-> audio.val]]

extract_song_metadata(entry) ==
    SongRecord(entry, select_audio_url(entry),
               SplitArtistTitle(Get(entry, "title", UnknownTitle),
                                Get(entry, "uploader", UnknownArtist)),
               format_duration(Get(entry, "duration", DurNone)))

\* the conversion with the watch page put in as the audio url
_convert_ytmusic_to_standard_with_url(r) ==
    LET video_id == Get(r, "videoId", NoneStr)
        artists == Get(r, "artists", <<>>)
    IN  IF artists # <<>> /\ artists[1] = NoneDict THEN NoneDict
        ELSE [id |-> video_id,
              title |-> Get(r, "title", UnknownTitle),
              artist |-> IF artists # <<>> THEN Get(artists[1], "name", NoneStr)
                         ELSE "Unknown Artist",
              audio_url |-> video_id,
              source |-> "ytmusicapi"]

\* _convert_ytmusic_to_standard catches everything and answers None then
_convert_ytmusic_to_standard(r) ==
    LET video_id == Get(r, "videoId", NoneStr)
        artists == Get(r, "artists", <<>>)
    IN  IF artists # <<>> /\ artists[1] = NoneDict THEN NoneDict
        ELSE [id |-> video_id,
              title |-> Get(r, "title", UnknownTitle),
              artist |-> IF artists # <<>> THEN Get(artists[1], "name", NoneStr)
                         ELSE "Unknown Artist",
              audio_url |-> NoneStr,
              source |-> "ytmusicapi"]

\* the loop "for entry in entries: if entry: append(extract_song_metadata(entry))"
\* with category None for "no category key added"
FirstRaised(done, cs) ==
    IF \E i \in 1..Len(done) : done[i].exc
    THEN Raise(done[CHOOSE i \in 1..Len(done) :
                      done[i].exc /\ \A j \in 1..(i - 1) : ~done[j].exc].err, cs)
    ELSE Ret([i \in 1..Len(done) |-> done[i].val], cs)

ExtractEach(present) == [i \in 1..Len(present) |-> extract_song_metadata(present[i])]

ExtractBatch(entries, cs) ==
    FirstRaised(ExtractEach(SelectSeq(entries, LAMBDA e : e # NoneDict)), cs)

----------------------------------------------------------------------------
(* Search *)

\* _search_songs_fallback without its try/except: what the handler is there for
_search_songs_fallback_unguarded(query, max_results, yd) ==
    LET cs == <<Call("ydl.extract_info", "ydl_opts",
                     [search |-> query, n |-> max_results], yd)>>
    IN  IF ~yd.ok THEN Raise(yd.err, cs)
        ELSE IF yd.val = NoneDict \/ "entries" \notin DOMAIN yd.val THEN Ret(<<>>, cs)
        ELSE ExtractBatch(yd.val.entries, cs)

_search_songs_fallback(query, max_results, yd) ==
    LET cs == <<Call("ydl.extract_info", "ydl_opts",
                     [search |-> query, n |-> max_results], yd)>>
    IN  IF ~yd.ok THEN Ret(<<>>, cs)
        ELSE IF yd.val = NoneDict \/ "entries" \notin DOMAIN yd.val THEN Ret(<<>>, cs)
        ELSE LET songs == ExtractBatch(yd.val.entries, cs)
             IN  IF songs.exc THEN Ret(<<>>, cs) ELSE songs

\* search_songs without the "if not self.ytmusic" test
search_songs_unchecked(query, max_results, ym, yd) ==
    LET cs == <<Call("ytmusic.search", "songs",
                     [search |-> query, n |-> max_results], ym)>>
    IN  IF ~ym.ok
        THEN LET fb == _search_songs_fallback(query, max_results, yd)
             IN  [fb EXCEPT !.calls = cs \o @]
        ELSE Ret([i \in 1..Len(ym.val) |-> _convert_ytmusic_to_standard(ym.val[i])], cs)

\* search_songs that also asks yt-dlp when ytmusicapi found nothing
search_songs_empty_falls_back(query, max_results, ym, yd) ==
    IF ~ytmusic THEN _search_songs_fallback(query, max_results, yd)
    ELSE LET cs == <<Call("ytmusic.search", "songs",
                          [search |-> query, n |-> max_results], ym)>>
         IN  IF ~ym.ok \/ ym.val = <<>>
             THEN LET fb == _search_songs_fallback(query, max_results, yd)
                  IN  [fb EXCEPT !.calls = cs \o @]
             ELSE Ret([i \in 1..Len(ym.val) |-> _convert_ytmusic_to_standard(ym.val[i])], cs)

search_songs(query, max_results, ym, yd) ==
    IF ~ytmusic THEN _search_songs_fallback(query, max_results, yd)
    ELSE LET cs == <<Call("ytmusic.search", "songs",
                          [search |-> query, n |-> max_results], ym)>>
         IN  IF ~ym.ok
             THEN LET fb == _search_songs_fallback(query, max_results, yd)
                  IN  [fb EXCEPT !.calls = cs \o @]
             ELSE Ret([i \in 1..Len(ym.val) |-> _convert_ytmusic_to_standard(ym.val[i])], cs)

----------------------------------------------------------------------------
(* Song details *)

\* A url is known by the pattern of _extract_video_id_from_url it matches
\* (watch?v= / youtu.be/, embed/, v/) and the id it carries, or by matching none.
Urls ==
    {[kind |-> "watch", vid |-> "a"], [kind |-> "embed", vid |-> "b"],
     [kind |-> "v", vid |-> "a"], [kind |-> "other", vid |-> NoneStr]}

_extract_video_id_from_url(url) ==
    IF url.kind \in {"watch", "embed", "v"} THEN url.vid ELSE NoneStr

_get_song_details_minimal(url, ymin) ==
    LET cs == <<Call("ydl.extract_info", "minimal_opts", url, ymin)>>
    IN  IF ~ymin.ok THEN Ret(NoneDict, cs)
        ELSE IF ymin.val = NoneDict THEN Ret(NoneDict, cs)
        ELSE Ret([id |-> Get(ymin.val, "id", NoneStr),
                  title |-> Get(ymin.val, "title", UnknownTitle),
                  artist |-> Get(ymin.val, "uploader", UnknownArtist),
                  audio_url |-> NoneStr,
                  source |-> "yt-dlp-minimal"], cs)

\* the inner try accepting the first hit whatever its id
SongDetailsPrimaryAnyId(video_id, ym) ==
    IF ~ym.ok THEN NoneDict
    ELSE IF ym.val = <<>> THEN NoneDict
    ELSE _convert_ytmusic_to_standard(ym.val[1])

\* the inner try of get_song_details: the record the primary yields, or None
SongDetailsPrimary(video_id, ym) ==
    IF ~ym.ok THEN NoneDict
    ELSE IF ym.val = <<>> THEN NoneDict
    ELSE LET song_info == _convert_ytmusic_to_standard(ym.val[1])
         IN  IF song_info # NoneDict /\ song_info.id = video_id
             THEN song_info ELSE NoneDict

\* the extraction fetch of get_song_details: the record, or what was raised
FetchDetails(yd) ==
    IF ~yd.ok THEN [exc |-> TRUE, err |-> yd.err] ELSE extract_song_metadata(yd.val)

\* get_song_details that takes the minimal path after any failure
get_song_details_minimal_always(url, ym, yd, ymin) ==
    LET video_id == _extract_video_id_from_url(url)
        tried == ytmusic /\ video_id # NoneStr
        cs1 == IF tried
               THEN <<Call("ytmusic.search", "songs", [search |-> video_id, n |-> 1], ym)>>
               ELSE <<>>
        found == IF tried THEN SongDetailsPrimary(video_id, ym) ELSE NoneDict
    IN  IF found # NoneDict THEN Ret(found, cs1)
        ELSE LET cs2 == cs1 \o <<Call("ydl.extract_info", "ydl_opts", url, yd)>>
                 fetched == FetchDetails(yd)
             IN  IF ~fetched.exc THEN Ret(fetched.val, cs2)
                 ELSE LET m == _get_song_details_minimal(url, ymin)
                      IN  [m EXCEPT !.calls = cs2 \o @]

get_song_details(url, ym, yd, ymin) ==
    LET video_id == _extract_video_id_from_url(url)
        tried == ytmusic /\ video_id # NoneStr
        cs1 == IF tried
               THEN <<Call("ytmusic.search", "songs", [search |-> video_id, n |-> 1], ym)>>
               ELSE <<>>
        found == IF tried THEN SongDetailsPrimary(video_id, ym) ELSE NoneDict
    IN  IF found # NoneDict THEN Ret(found, cs1)
        ELSE LET cs2 == cs1 \o <<Call("ydl.extract_info", "ydl_opts", url, yd)>>
                 fetched == FetchDetails(yd)
             IN  IF ~fetched.exc THEN Ret(fetched.val, cs2)
                 ELSE IF IsBotDetection(fetched.err)
                      THEN LET m == _get_song_details_minimal(url, ymin)
                           IN  [m EXCEPT !.calls = cs2 \o @]
                      ELSE Ret(NoneDict, cs2)

----------------------------------------------------------------------------
(* Audio url *)

WatchUrl(video_id) == [kind |-> "watch", vid |-> video_id]

\* "for format_item in info['formats']: if format_item.get('url'): return it"
FirstFormatUrl(fs) ==
    IF \E i \in 1..Len(fs) : "url" \in DOMAIN fs[i]
    THEN fs[CHOOSE i \in 1..Len(fs) :
              "url" \in DOMAIN fs[i] /\ \A j \in 1..(i - 1) : "url" \notin DOMAIN fs[j]].url
    ELSE NoneStr

_get_audio_url_fallback(video_id, yfb) ==
    LET cs == <<Call("ydl.extract_info", "fallback_opts", WatchUrl(video_id), yfb)>>
    IN  IF ~yfb.ok THEN Ret(NoneStr, cs)
        ELSE IF yfb.val = NoneDict THEN Ret(NoneStr, cs)
        ELSE IF "url" \in DOMAIN yfb.val THEN Ret(yfb.val.url, cs)
        ELSE IF "formats" \in DOMAIN yfb.val THEN Ret(FirstFormatUrl(yfb.val.formats), cs)
        ELSE Ret(NoneStr, cs)

\* the first fetch of get_audio_url: the url, or what was raised
FetchAudio(yd) ==
    IF ~yd.ok THEN [exc |-> TRUE, err |-> yd.err] ELSE select_audio_url(yd.val)

\* get_audio_url that takes the fallback after any failure
get_audio_url_retry_always(video_id, yd, yfb) ==
    LET cs == <<Call("ydl.extract_info", "ydl_opts", WatchUrl(video_id), yd)>>
        fetched == FetchAudio(yd)
    IN  IF ~fetched.exc THEN Ret(fetched.val, cs)
        ELSE LET fb == _get_audio_url_fallback(video_id, yfb)
             IN  [fb EXCEPT !.calls = cs \o @]

get_audio_url(video_id, yd, yfb) ==
    LET cs == <<Call("ydl.extract_info", "ydl_opts", WatchUrl(video_id), yd)>>
        fetched == FetchAudio(yd)
    IN  IF ~fetched.exc THEN Ret(fetched.val, cs)
        ELSE IF IsBotDetection(fetched.err)
             THEN LET fb == _get_audio_url_fallback(video_id, yfb)
                  IN  [fb EXCEPT !.calls = cs \o @]
             ELSE Ret(NoneStr, cs)

----------------------------------------------------------------------------
(* Playlist *)

PlaylistUrls == {"PL1"}

\* the options are a copy of self.ydl_opts with playlistend set
get_playlist_info(playlist_url, max_results, yd) ==
    LET cs == <<Call("ydl.extract_info", "ydl_opts+playlistend",
                     [url |-> playlist_url, playlistend |-> max_results], yd)>>
    IN  IF ~yd.ok THEN Ret(NoneDict, cs)
        ELSE IF yd.val = NoneDict \/ "entries" \notin DOMAIN yd.val THEN Ret(NoneDict, cs)
        ELSE LET songs == ExtractBatch(yd.val.entries, cs)
             IN  IF songs.exc THEN Ret(NoneDict, cs)
                 ELSE Ret([id |-> Get(yd.val, "id", NoneStr),
                           entry_count |-> Len(songs.val),
                           songs |-> songs.val], cs)

----------------------------------------------------------------------------
(* Category videos *)

ytmusic_category_queries ==
    { <<<<"m", "u", "s", "i", "c">>,
        <<"m", "u", "s", "i", "c">>>>,
      <<<<"p", "o", "p">>,
        <<"p", "o", "p", " ", "m", "u", "s", "i", "c">>>>,
      <<<<"r", "o", "c", "k">>,
        <<"r", "o", "c", "k", " ", "m", "u", "s", "i", "c">>>>,
      <<<<"h", "i", "p", "_", "h", "o", "p">>,
        <<"h", "i", "p", " ", "h", "o", "p">>>>,
      <<<<"e", "l", "e", "c", "t", "r", "o", "n", "i", "c">>,
        <<"e", "l", "e", "c", "t", "r", "o", "n", "i", "c", " ", "m", "u", "s", "i", "c">>>>,
      <<<<"i", "n", "d", "i", "e">>,
        <<"i", "n", "d", "i", "e", " ", "m", "u", "s", "i", "c">>>>,
      <<<<"c", "l", "a", "s", "s", "i", "c", "a", "l">>,
        <<"c", "l", "a", "s", "s", "i", "c", "a", "l", " ", "m", "u", "s", "i", "c">>>>,
      <<<<"j", "a", "z", "z">>,
        <<"j", "a", "z", "z", " ", "m", "u", "s", "i", "c">>>>,
      <<<<"c", "o", "u", "n", "t", "r", "y">>,
        <<"c", "o", "u", "n", "t", "r", "y", " ", "m", "u", "s", "i", "c">>>>,
      <<<<"r", "&", "b">>,
        <<"r", "&", "b", " ", "m", "u", "s", "i", "c">>>> }

fallback_category_queries ==
    { <<<<"m", "u", "s", "i", "c">>,
        <<"l", "a", "t", "e", "s", "t", " ", "m", "u", "s", "i", "c", " ", "v", "i", "d", "e", "o", "s">>>>,
      <<<<"p", "o", "p">>,
        <<"p", "o", "p", " ", "m", "u", "s", "i", "c", " ", "h", "i", "t", "s">>>>,
      <<<<"r", "o", "c", "k">>,
        <<"r", "o", "c", "k", " ", "m", "u", "s", "i", "c", " ", "s", "o", "n", "g", "s">>>>,
      <<<<"h", "i", "p", "_", "h", "o", "p">>,
        <<"h", "i", "p", " ", "h", "o", "p", " ", "r", "a", "p", " ", "m", "u", "s", "i", "c">>>>,
      <<<<"e", "l", "e", "c", "t", "r", "o", "n", "i", "c">>,
        <<"e", "l", "e", "c", "t", "r", "o", "n", "i", "c", " ", "d", "a", "n", "c", "e", " ", "m", "u", "s", "i", "c">>>>,
      <<<<"i", "n", "d", "i", "e">>,
        <<"i", "n", "d", "i", "e", " ", "a", "l", "t", "e", "r", "n", "a", "t", "i", "v", "e", " ", "m", "u", "s", "i", "c">>>>,
      <<<<"c", "l", "a", "s", "s", "i", "c", "a", "l">>,
        <<"c", "l", "a", "s", "s", "i", "c", "a", "l", " ", "m", "u", "s", "i", "c">>>>,
      <<<<"j", "a", "z", "z">>,
        <<"j", "a", "z", "z", " ", "m", "u", "s", "i", "c">>>>,
      <<<<"c", "o", "u", "n", "t", "r", "y">>,
        <<"c", "o", "u", "n", "t", "r", "y", " ", "m", "u", "s", "i", "c">>>>,
      <<<<"r", "&", "b">>,
        <<"r", "&", "b", " ", "s", "o", "u", "l", " ", "m", "u", "s", "i", "c">>>> }

MusicSuffix == <<" ", "m", "u", "s", "i", "c">>

\* the lookup made with the category as it came, its case kept
CategoryQueryCaseSensitive(table, category) ==
    IF \E p \in table : p[1] = category
    THEN (CHOOSE p \in table : p[1] = category)[2]
    ELSE category \o MusicSuffix

\* category_queries.get(category.lower(), f"{category} music")
CategoryQuery(table, category) ==
    IF \E p \in table : p[1] = Lower(category)
    THEN (CHOOSE p \in table : p[1] = Lower(category))[2]
    ELSE category \o MusicSuffix

Categories == {<<"P", "o", "p">>, <<"j", "a", "z", "z">>, <<"l", "o", "f", "i">>}

WithCategory(rec, category) == [k \in DOMAIN rec \cup {"category"} |->
                                   IF k = "category" THEN category ELSE rec[k]]

_get_category_videos_fallback(category, max_results, yd) ==
    LET query == CategoryQuery(fallback_category_queries, category)
        cs == <<Call("ydl.extract_info", "ydl_opts",
                     [search |-> query, n |-> max_results], yd)>>
    IN  IF ~yd.ok THEN Ret(<<>>, cs)
        ELSE IF yd.val = NoneDict \/ "entries" \notin DOMAIN yd.val THEN Ret(<<>>, cs)
        ELSE LET videos == ExtractBatch(yd.val.entries, cs)
             IN  IF videos.exc THEN Ret(<<>>, cs)
                 ELSE Ret([i \in 1..Len(videos.val) |->
                              WithCategory(videos.val[i], category)], cs)

get_category_videos(category, max_results, ym, yd) ==
    IF ~ytmusic THEN _get_category_videos_fallback(category, max_results, yd)
    ELSE LET query == CategoryQuery(ytmusic_category_queries, category)
             cs == <<Call("ytmusic.search", "songs",
                          [search |-> query, n |-> max_results], ym)>>
         IN  IF ~ym.ok
             THEN LET fb == _get_category_videos_fallback(category, max_results, yd)
                  IN  [fb EXCEPT !.calls = cs \o @]
             ELSE LET converted == [i \in 1..Len(ym.val) |->
                                       _convert_ytmusic_to_standard(ym.val[i])]
                      kept == SelectSeq(converted, LAMBDA v : v # NoneDict)
                  IN  Ret([i \in 1..Len(kept) |-> WithCategory(kept[i], category)], cs)

----------------------------------------------------------------------------
(* Homepage *)

\* what get_charts, get_home and the homepage searches can answer with
HomeEntries == {YmA, YmB}
HomeLists == SeqsUpTo(HomeEntries, MaxHome) \cup {<<YmBad, YmA>>, <<YmNoId>>}
Country(code, songs) == [code |-> code, data |-> [songs |-> [playlist |-> songs]]]
\* charts['countries'] is a dict in insertion order: a sequence of (code, data)
ChartsValues ==
    {NoneDict, [countries |-> <<>>],
     [countries |-> <<[code |-> "IN", data |-> [videos |-> <<>>]]>>],
     [countries |-> <<Country("IN", <<YmB>>), Country("US", <<YmA>>)>>]}
    \cup {[countries |-> <<Country("US", l)>>] : l \in HomeLists}
ChartsOutcomes == Failures \cup {Ok(c) : c \in ChartsValues}

Sections ==
    {[title |-> "s"], [title |-> "s", contents |-> <<YmA>>],
     [title |-> "s", contents |-> <<YmNoId, YmB>>]}
HomeFeeds ==
    SeqsUpTo(Sections, MaxHome)
    \cup {<<[title |-> "s", contents |-> <<YmB>>], [title |-> "s"],
            [title |-> "s", contents |-> <<YmA>>], [title |-> "s", contents |-> <<YmB>>]>>}
HomeOutcomes == Failures \cup {Ok(f) : f \in HomeFeeds}
PopularOutcomes == Failures \cup {Ok(l) : l \in HomeLists}

HomeLimits == Limits \cup {4 * MaxHome}

TermBatches ==
    SeqsUpTo({EntA, EntB}, MaxTermItems) \cup {<<EntA, EntBadTitle, EntB>>, <<EntNoId, EntA>>}
TermOutcomes == {Fail(ErrNet), Ok(NoneDict)} \cup {Ok([entries |-> b]) : b \in TermBatches}

popular_searches ==
    << <<"t", "r", "e", "n", "d", "i", "n", "g", " ", "m", "u", "s", "i", "c", " ", "2", "0", "2", "4">>,
       <<"p", "o", "p", "u", "l", "a", "r", " ", "s", "o", "n", "g", "s">>,
       <<"t", "o", "p", " ", "h", "i", "t", "s">>,
       <<"m", "u", "s", "i", "c", " ", "c", "h", "a", "r", "t", "s">> >>
PopularQuery ==
    <<"p", "o", "p", "u", "l", "a", "r", " ", "s", "o", "n", "g", "s", " ", "2", "0", "2", "4">>

\* str.replace(' ', '_')
ReplaceSpaces(t) == [i \in 1..Len(t) |-> IF t[i] = " " THEN "_" ELSE t[i]]

\* "for song in songs: c = convert(song); if c: c['category'] = tag; append(c)"
ConvertTagged(songs, tag) ==
    LET converted == [i \in 1..Len(songs) |-> _convert_ytmusic_to_standard(songs[i])]
        kept == SelectSeq(converted, LAMBDA v : v # NoneDict)
    IN  [i \in 1..Len(kept) |-> WithCategory(kept[i], tag)]

\* the charts step: the records it appends (none when it raises)
ChartsStep(max_results, c) ==
    IF ~c.ok THEN <<>>
    ELSE IF c.val = NoneDict \/ "countries" \notin DOMAIN c.val THEN <<>>
    ELSE LET countries == c.val.countries
         IN  IF countries = <<>> THEN <<>>       \* list(...)[0] raises IndexError
             ELSE LET country_data ==
                          IF \E i \in 1..Len(countries) : countries[i].code = "US"
                          THEN countries[CHOOSE i \in 1..Len(countries) :
                                            countries[i].code = "US"].data
                          ELSE countries[1].data
                  IN  IF "songs" \notin DOMAIN country_data THEN <<>>
                      ELSE ConvertTagged(SliceTo(country_data.songs.playlist,
                                                 max_results \div 2), "trending")

\* the inner loop over one section's items, with its break
RECURSIVE AddItems(_, _, _)
AddItems(acc, items, max_results) ==
    IF items = <<>> THEN acc
    ELSE LET item == Head(items)
             converted == IF Get(item, "videoId", NoneStr) # NoneStr
                          THEN _convert_ytmusic_to_standard(item) ELSE NoneDict
         IN  IF converted = NoneDict THEN AddItems(acc, Tail(items), max_results)
             ELSE LET acc2 == Append(acc, WithCategory(converted, "new_releases"))
                  IN  IF Len(acc2) >= max_results THEN acc2
                      ELSE AddItems(acc2, Tail(items), max_results)

\* the outer loop over the sections, with its break
RECURSIVE AddSections(_, _, _, _)
AddSections(acc, sections, per_section, max_results) ==
    IF sections = <<>> THEN acc
    ELSE LET acc2 == IF "contents" \in DOMAIN Head(sections)
                     THEN AddItems(acc, SliceTo(Head(sections).contents, per_section),
                                   max_results)
                     ELSE acc
         IN  IF Len(acc2) >= max_results THEN acc2
             ELSE AddSections(acc2, Tail(sections), per_section, max_results)

\* the home-feed step: the list after it
HomeStep(trending, max_results, h) ==
    IF ~h.ok THEN trending
    ELSE AddSections(trending, SliceTo(h.val, 3),
                     (max_results - Len(trending)) \div 3, max_results)

PopularStep(trending, p) ==
    IF ~p.ok THEN trending ELSE trending \o ConvertTagged(p.val, "popular")

\* one term of the fallback: the videos after it.  A record that cannot be
\* normalized ends the term; the records appended before it stay.
RECURSIVE AddTermEntries(_, _, _, _)
AddTermEntries(all_videos, entries, term, max_results) ==
    IF entries = <<>> THEN all_videos
    ELSE IF Head(entries) = NoneDict \/ Len(all_videos) >= max_results
         THEN AddTermEntries(all_videos, Tail(entries), term, max_results)
    ELSE LET video_info == extract_song_metadata(Head(entries))
         IN  IF video_info.exc THEN all_videos
             ELSE AddTermEntries(
                      Append(all_videos, WithCategory(video_info.val, ReplaceSpaces(term))),
                      Tail(entries), term, max_results)

RECURSIVE FallbackTerms(_, _, _, _)
FallbackTerms(all_videos, i, max_results, f) ==
    IF i > Len(popular_searches) THEN all_videos
    ELSE LET out == f[i]
             next == IF out.ok /\ out.val # NoneDict /\ "entries" \in DOMAIN out.val
                     THEN AddTermEntries(all_videos, out.val.entries,
                                         popular_searches[i], max_results)
                     ELSE all_videos
         IN  FallbackTerms(next, i + 1, max_results, f)

\* "seen_ids = set(); for video in all_videos: if video['id'] not in seen_ids: ..."
\* the de-duplication loop without its seen_ids test
RemoveDuplicatesUntested(unique_videos, seen_ids, all_videos) == unique_videos \o all_videos

RECURSIVE RemoveDuplicates(_, _, _)
RemoveDuplicates(unique_videos, seen_ids, all_videos) ==
    IF all_videos = <<>> THEN unique_videos
    ELSE IF Head(all_videos).id \in seen_ids
         THEN RemoveDuplicates(unique_videos, seen_ids, Tail(all_videos))
         ELSE RemoveDuplicates(Append(unique_videos, Head(all_videos)),
                               seen_ids \cup {Head(all_videos).id}, Tail(all_videos))

\* the fallback counting the merged list, duplicates included
_get_homepage_data_fallback_counts_merged(max_results, f) ==
    LET videos_per_search == max_results \div Len(popular_searches)
        cs == [i \in 1..Len(popular_searches) |->
                  Call("ydl.extract_info", "ydl_opts",
                       [search |-> popular_searches[i], n |-> videos_per_search], f[i])]
        all_videos == FallbackTerms(<<>>, 1, max_results, f)
        unique_videos == RemoveDuplicates(<<>>, {}, all_videos)
    IN  Ret([trending_music |-> SliceTo(unique_videos, max_results),
             total_results |-> Len(all_videos)], cs)

\* the fallback asking every search for the whole limit
_get_homepage_data_fallback_whole_limit(max_results, f) ==
    LET cs == [i \in 1..Len(popular_searches) |->
                  Call("ydl.extract_info", "ydl_opts",
                       [search |-> popular_searches[i], n |-> max_results], f[i])]
        all_videos == FallbackTerms(<<>>, 1, max_results, f)
        unique_videos == RemoveDuplicates(<<>>, {}, all_videos)
    IN  Ret([trending_music |-> SliceTo(unique_videos, max_results),
             total_results |-> Len(unique_videos)], cs)

\* the fallback with the search for its first term made once more at the end
_get_homepage_data_fallback_repeats(max_results, f) ==
    LET videos_per_search == max_results \div Len(popular_searches)
        cs == [i \in 1..(Len(popular_searches) + 1) |->
                  Call("ydl.extract_info", "ydl_opts",
                       [search |-> popular_searches[IF i > Len(popular_searches) THEN 1 ELSE i],
                        n |-> videos_per_search],
                       f[IF i > Len(popular_searches) THEN 1 ELSE i])]
    IN  Ret([trending_music |-> <<>>, total_results |-> 0], cs)

_get_homepage_data_fallback(max_results, f) ==
    LET videos_per_search == max_results \div Len(popular_searches)
        cs == [i \in 1..Len(popular_searches) |->
                  Call("ydl.extract_info", "ydl_opts",
                       [search |-> popular_searches[i], n |-> videos_per_search], f[i])]
        all_videos == FallbackTerms(<<>>, 1, max_results, f)
        unique_videos == RemoveDuplicates(<<>>, {}, all_videos)
    IN  Ret([trending_music |-> SliceTo(unique_videos, max_results),
             total_results |-> Len(unique_videos)], cs)

get_youtube_homepage_data(max_results, c, h, p, f) ==
    IF ~ytmusic THEN _get_homepage_data_fallback(max_results, f)
    ELSE LET cs1 == <<Call("ytmusic.get_charts", "", <<>>, c)>>
             t1 == ChartsStep(max_results, c)
             home == Len(t1) < max_results
             cs2 == IF home THEN cs1 \o <<Call("ytmusic.get_home", "", <<>>, h)>> ELSE cs1
             t2 == IF home THEN HomeStep(t1, max_results, h) ELSE t1
             popular == Len(t2) < max_results
             cs3 == IF popular
                    THEN cs2 \o <<Call("ytmusic.search", "songs",
                                       [search |-> PopularQuery,
                                        n |-> max_results - Len(t2)], p)>>
                    ELSE cs2
             t3 == IF popular THEN PopularStep(t2, p) ELSE t2
         IN  Ret([trending_music |-> t3, total_results |-> Len(t3)], cs3)

----------------------------------------------------------------------------
(* The operations app.py calls on the gateway that music_extractor.py does  *)
(* not hold: written after the table of operations of the specification     *)
(* (primary, then secondary on failure or when the client is unavailable).  *)

PlaylistId == "PL1"
PlaylistPageUrl == "https://www.youtube.com/playlist?list=PL1"
WatchPageUrl == "https://www.youtube.com/watch?v=a"
PlaylistIdParams == {PlaylistId, PlaylistPageUrl, WatchPageUrl}

\* the id a playlist url names, None for a url that names none
_extract_playlist_id_from_url(url) ==
    IF url = PlaylistPageUrl THEN PlaylistId ELSE NoneStr

PlaylistUrl(playlist_id) ==
    IF playlist_id = PlaylistId THEN "PL1" ELSE playlist_id

\* the song records of a list of raw tracks, in their order, less those that
\* have no record
RECURSIVE ConvertTracks(_)
ConvertTracks(tracks) ==
    IF tracks = <<>> THEN <<>>
    ELSE LET converted == IF Get(Head(tracks), "videoId", NoneStr) # NoneStr
                          THEN _convert_ytmusic_to_standard(Head(tracks)) ELSE NoneDict
         IN  IF converted = NoneDict THEN ConvertTracks(Tail(tracks))
             ELSE <<converted>> \o ConvertTracks(Tail(tracks))

YmPlaylistOutcomes ==
    Failures \cup {Ok(NoneDict)}
    \cup {Ok([id |-> PlaylistId, trackCount |-> Len(b) + 1, tracks |-> b]) : b \in YmBatches}

\* Playlist with the extraction fetch made whatever the lookup answered
get_ytmusic_playlist_both(playlist_id, max_results, ym, yd) ==
    LET cs == <<Call("ytmusic.get_playlist", "",
                     [playlistId |-> playlist_id, limit |-> max_results], ym)>>
        fetched == get_playlist_info(PlaylistUrl(playlist_id), max_results, yd)
    IN  IF ~ytmusic THEN fetched ELSE [fetched EXCEPT !.calls = cs \o @]

\* Playlist: the structured-metadata playlist lookup, then the extraction
\* playlist fetch
get_ytmusic_playlist(playlist_id, max_results, ym, yd) ==
    LET cs == <<Call("ytmusic.get_playlist", "",
                     [playlistId |-> playlist_id, limit |-> max_results], ym)>>
        fetched == get_playlist_info(PlaylistUrl(playlist_id), max_results, yd)
    IN  IF ~ytmusic THEN fetched
        ELSE IF ~ym.ok \/ ym.val = NoneDict \/ "tracks" \notin DOMAIN ym.val
        THEN [fetched EXCEPT !.calls = cs \o @]
        ELSE Ret([id |-> Get(ym.val, "id", NoneStr),
                  total_tracks |-> Get(ym.val, "trackCount", 0),
                  entries |-> ConvertTracks(ym.val.tracks),
                  source |-> "ytmusicapi"], cs)

YmWatchOutcomes ==
    Failures \cup {Ok(NoneDict)} \cup {Ok([tracks |-> b]) : b \in YmBatches}

\* RecommendedFor with an extraction search made after a failed lookup
get_recommended_songs_with_fallback(video_id, max_results, w) ==
    IF ~ytmusic \/ ~w.ok
    THEN Ret(NoneDict, <<Call("ydl.extract_info", "ydl_opts",
                              [search |-> <<video_id>>, n |-> max_results], Fail(ErrNet))>>)
    ELSE Ret([video_id |-> video_id, recommendations |-> <<>>, source |-> "ytmusicapi"],
             <<>>)

\* RecommendedFor: the watch-next lookup, whose failure ends the operation
get_recommended_songs(video_id, max_results, w) ==
    LET cs == <<Call("ytmusic.get_watch_playlist", "",
                     [videoId |-> video_id, limit |-> max_results], w)>>
    IN  IF ~ytmusic THEN Ret(NoneDict, <<>>)
        ELSE IF ~w.ok \/ w.val = NoneDict \/ "tracks" \notin DOMAIN w.val
        THEN Ret(NoneDict, cs)
        ELSE Ret([video_id |-> video_id,
                  recommendations |-> ConvertTracks(w.val.tracks),
                  source |-> "ytmusicapi"], cs)

\* TrendingByCountry: the home-feed scan for playlist-shaped items, then a
\* search for each of a fixed list of terms until the limit is reached
TrendPlaylistA == [playlistId |-> "PLa", title |-> "t"]
TrendPlaylistB == [playlistId |-> "PLb", title |-> "t"]
TrendingFeeds ==
    {<<>>, <<[title |-> "s", contents |-> <<YmA>>]>>,
     <<[title |-> "s", contents |-> <<TrendPlaylistA, YmA>>]>>,
     <<[title |-> "s", contents |-> <<TrendPlaylistA>>], [title |-> "s"],
       [title |-> "r", contents |-> <<TrendPlaylistB>>]>>}
TrendingHomeOutcomes == Failures \cup {Ok(f) : f \in TrendingFeeds}
TrendingSearchOutcomes ==
    {Fail(ErrNet), Ok(<<>>), Ok(<<TrendPlaylistA>>), Ok(<<TrendPlaylistA, TrendPlaylistB>>)}
trending_terms ==
    << <<"t", "r", "e", "n", "d", "i", "n", "g">>, <<"t", "o", "p">> >>
CountryCodes == {<<"u", "s">>, <<"I", "N">>}

TrendingRecord(item, section) ==
    [title |-> Get(item, "title", NoneStr), playlist_id |-> item.playlistId,
     section |-> section]

RECURSIVE PlaylistShaped(_, _)
PlaylistShaped(items, section) ==
    IF items = <<>> THEN <<>>
    ELSE (IF "playlistId" \in DOMAIN Head(items)
          THEN <<TrendingRecord(Head(items), section)>> ELSE <<>>)
         \o PlaylistShaped(Tail(items), section)

RECURSIVE ScanHomeFeed(_)
ScanHomeFeed(sections) ==
    IF sections = <<>> THEN <<>>
    ELSE PlaylistShaped(Get(Head(sections), "contents", <<>>), Head(sections).title)
         \o ScanHomeFeed(Tail(sections))

\* the searches from term i on: the playlists found and the calls made
RECURSIVE TrendingTerms(_, _, _, _, _)
TrendingTerms(found, i, max_results, t, cs) ==
    IF i > Len(trending_terms) \/ Len(found) >= max_results
    THEN [found |-> found, calls |-> cs]
    ELSE TrendingTerms(
            IF t[i].ok THEN found \o PlaylistShaped(t[i].val, "search") ELSE found,
            i + 1, max_results, t,
            Append(cs, Call("ytmusic.search", "playlists",
                            [search |-> trending_terms[i], n |-> max_results], t[i])))

get_trending_by_country(country_code, max_results, h, t) ==
    LET cs == <<Call("ytmusic.get_home", "", [country |-> country_code], h)>>
        searched == TrendingTerms(<<>>, 1, max_results, t, cs)
        playlists == IF h.ok THEN ScanHomeFeed(h.val) ELSE searched.found
    IN  IF ~ytmusic THEN Ret(NoneDict, <<>>)
        ELSE Ret([country |-> country_code,
                  trending_playlists |-> SliceTo(playlists, max_results),
                  total_playlists |-> Len(SliceTo(playlists, max_results))],
                 IF h.ok THEN cs ELSE searched.calls)

----------------------------------------------------------------------------
(* The handlers of app.py *)

MAX_SEARCH_RESULTS == 50
DEFAULT_SEARCH_RESULTS == 10
HomepageDefaultLimit == 20
PlaylistDefaultLimit == 50

\* str(n)
IntText(n) == IF n < 0 THEN <<"-">> \o Decimal(0 - n) ELSE Decimal(n)

\* request.args.get(name, default): a parameter the request lacks is NoneText
ArgText(param, default) == IF param = NoneText THEN default ELSE param

\* request.args.get(name, default, type=int): the default also for a value
\* int() rejects
ArgInt(param, default) ==
    IF param = NoneText THEN default
    ELSE IF ToInt(DurStr(param)).ok THEN ToInt(DurStr(param)).n
    ELSE default

\* the limit as it came in, passed on whole
ClampLimitNot(max_results) == max_results

\* if max_results > Config.MAX_SEARCH_RESULTS: max_results = Config.MAX_SEARCH_RESULTS
ClampLimit(max_results) ==
    IF max_results > MAX_SEARCH_RESULTS THEN MAX_SEARCH_RESULTS ELSE max_results

\* a call of a method of music_extractor
Invocation(name, a) == [name |-> name, args |-> a]

\* jsonify(body), status with the gateway and upstream calls that led to it
Response(status, body, inv, cs) ==
    [status |-> status, body |-> body, invoked |-> inv, calls |-> cs]

\* /search that answers 500 when the search found nothing
app_search_songs_empty_is_error(q, limit, ym, yd) ==
    LET query == Strip(ArgText(q, <<>>))
        max_results == ClampLimit(ArgInt(limit, DEFAULT_SEARCH_RESULTS))
        inv == <<Invocation("search_songs", [query |-> query, max_results |-> max_results])>>
        songs == search_songs(query, max_results, ym, yd)
    IN  IF query = <<>>
        THEN Response(400, [error |-> "Query parameter \"q\" is required"], <<>>, <<>>)
        ELSE IF songs.exc \/ songs.val = <<>>
        THEN Response(500, [error |-> "Internal server error during search"],
                      inv, songs.calls)
        ELSE Response(200, [success |-> TRUE, query |-> query,
                            results_count |-> Len(songs.val), songs |-> songs.val],
                      inv, songs.calls)

app_search_songs(q, limit, ym, yd) ==
    LET query == Strip(ArgText(q, <<>>))
        max_results == ClampLimit(ArgInt(limit, DEFAULT_SEARCH_RESULTS))
        inv == <<Invocation("search_songs", [query |-> query, max_results |-> max_results])>>
        songs == search_songs(query, max_results, ym, yd)
    IN  IF query = <<>>
        THEN Response(400, [error |-> "Query parameter \"q\" is required"], <<>>, <<>>)
        ELSE IF songs.exc
        THEN Response(500, [error |-> "Internal server error during search"],
                      inv, songs.calls)
        ELSE Response(200, [success |-> TRUE, query |-> query,
                            results_count |-> Len(songs.val), songs |-> songs.val],
                      inv, songs.calls)

app_get_homepage_data(limit, c, h, p, f) ==
    LET max_results == ClampLimit(ArgInt(limit, HomepageDefaultLimit))
        inv == <<Invocation("get_youtube_homepage_data", [max_results |-> max_results])>>
        homepage_data == get_youtube_homepage_data(max_results, c, h, p, f)
    IN  IF homepage_data.exc
        THEN Response(500, [error |-> "Internal server error while fetching homepage data"],
                      inv, homepage_data.calls)
        ELSE IF homepage_data.val = NoneDict
        THEN Response(500, [error |-> "Could not retrieve homepage data"],
                      inv, homepage_data.calls)
        ELSE Response(200, [success |-> TRUE, data |-> homepage_data.val,
                            message |-> "YouTube homepage data retrieved successfully"],
                      inv, homepage_data.calls)

\* str.startswith('http'), str.upper()
StartsWithHttp(u) == u \in {PlaylistPageUrl, WatchPageUrl}
Upper(t) == [i \in 1..Len(t) |-> UpperChar(t[i])]

app_get_ytmusic_playlist(playlist_id, limit, ym, yd) ==
    LET max_results == ClampLimit(ArgInt(limit, PlaylistDefaultLimit))
        extracted_id == _extract_playlist_id_from_url(playlist_id)
        inv1 == IF StartsWithHttp(playlist_id)
                THEN <<Invocation("_extract_playlist_id_from_url", [url |-> playlist_id])>>
                ELSE <<>>
        id == IF StartsWithHttp(playlist_id) THEN extracted_id ELSE playlist_id
        inv == Append(inv1, Invocation("get_ytmusic_playlist",
                                       [playlist_id |-> id, max_results |-> max_results]))
        playlist_info == get_ytmusic_playlist(id, max_results, ym, yd)
    IN  IF StartsWithHttp(playlist_id) /\ extracted_id = NoneStr
        THEN Response(400, [error |-> "Invalid playlist URL"], inv1, <<>>)
        ELSE IF playlist_info.exc
        THEN Response(500, [error |-> "Internal server error during playlist extraction"],
                      inv, playlist_info.calls)
        ELSE IF playlist_info.val = NoneDict
        THEN Response(400, [error |-> "Could not extract playlist information"],
                      inv, playlist_info.calls)
        ELSE Response(200, [success |-> TRUE, playlist |-> playlist_info.val],
                      inv, playlist_info.calls)

app_get_trending_by_country(country_code, limit, h, t) ==
    LET max_results == ClampLimit(ArgInt(limit, PlaylistDefaultLimit))
        code == Upper(country_code)
        inv == <<Invocation("get_trending_by_country",
                            [country_code |-> code, max_results |-> max_results])>>
        trending_data == get_trending_by_country(code, max_results, h, t)
    IN  IF trending_data.exc
        THEN Response(500, [success |-> FALSE,
                            error |-> "Internal server error during trending data extraction"],
                      inv, trending_data.calls)
        ELSE IF trending_data.val = NoneDict
                    \/ Get(trending_data.val, "trending_playlists", <<>>) = <<>>
        THEN Response(400, [success |-> FALSE,
                            error |-> "Could not fetch trending playlists for country code"],
                      inv, trending_data.calls)
        ELSE Response(200, [success |-> TRUE, country |-> code,
                            total_playlists |-> Get(trending_data.val, "total_playlists", 0),
                            playlists |-> trending_data.val.trending_playlists],
                      inv, trending_data.calls)

app_get_recommended_songs(video_id, limit, w) ==
    LET max_results == ClampLimit(ArgInt(limit, PlaylistDefaultLimit))
        inv == <<Invocation("get_recommended_songs",
                            [video_id |-> video_id, max_results |-> max_results])>>
        recommended_data == get_recommended_songs(video_id, max_results, w)
    IN  IF recommended_data.exc
        THEN Response(500, [success |-> FALSE,
                            error |-> "Internal server error while fetching recommendations"],
                      inv, recommended_data.calls)
        ELSE IF recommended_data.val = NoneDict
        THEN Response(400, [success |-> FALSE,
                            error |-> "Could not fetch recommendations for video ID"],
                      inv, recommended_data.calls)
        ELSE Response(200, [success |-> TRUE, recommendations |-> recommended_data.val],
                      inv, recommended_data.calls)

\* /audio answering 500 when the first fetch failed
app_get_audio_url_strict(video_id, yd, yfb) ==
    LET inv == <<Invocation("get_audio_url", [video_id |-> video_id])>>
        audio_url == get_audio_url(video_id, yd, yfb)
    IN  IF audio_url.exc \/ ~yd.ok
        THEN Response(500, [error |-> "Internal server error"], inv, audio_url.calls)
        ELSE IF audio_url.val \notin {NoneStr, ""}
        THEN Response(200, [success |-> TRUE, video_id |-> video_id,
                            audio_url |-> audio_url.val,
                            message |-> "Audio URL retrieved successfully"],
                      inv, audio_url.calls)
        ELSE Response(404, [error |-> "Could not get audio URL for this video"],
                      inv, audio_url.calls)

\* "if audio_url:" is false for None and for the empty string
app_get_audio_url(video_id, yd, yfb) ==
    LET inv == <<Invocation("get_audio_url", [video_id |-> video_id])>>
        audio_url == get_audio_url(video_id, yd, yfb)
    IN  IF audio_url.exc
        THEN Response(500, [error |-> "Internal server error"], inv, audio_url.calls)
        ELSE IF audio_url.val \notin {NoneStr, ""}
        THEN Response(200, [success |-> TRUE, video_id |-> video_id,
                            audio_url |-> audio_url.val,
                            message |-> "Audio URL retrieved successfully"],
                      inv, audio_url.calls)
        ELSE Response(404, [error |-> "Could not get audio URL for this video"],
                      inv, audio_url.calls)

HealthQuery == <<"t", "e", "s", "t">>

\* health_check answering unhealthy when the test search found nothing
app_health_check_strict(ym, yd) ==
    LET inv == <<Invocation("search_songs", [query |-> HealthQuery, max_results |-> 1])>>
        test_search == search_songs(HealthQuery, 1, ym, yd)
    IN  IF test_search.exc \/ test_search.val = <<>>
        THEN Response(500, [status |-> "unhealthy"], inv, test_search.calls)
        ELSE Response(200,
                      [status |-> "healthy",
                       services |-> [ytmusic_api |-> IF ytmusic THEN "OK" ELSE "Unavailable",
                                     search_function |-> "OK",
                                     yt_dlp |-> "OK"]],
                      inv, test_search.calls)

\* health_check: music_extractor.search_songs("test", 1)
app_health_check(ym, yd) ==
    LET inv == <<Invocation("search_songs", [query |-> HealthQuery, max_results |-> 1])>>
        test_search == search_songs(HealthQuery, 1, ym, yd)
    IN  IF test_search.exc
        THEN Response(500, [status |-> "unhealthy"], inv, test_search.calls)
        ELSE Response(200,
                      [status |-> "healthy",
                       services |-> [ytmusic_api |-> IF ytmusic THEN "OK" ELSE "Unavailable",
                                     search_function |-> IF test_search.val # <<>>
                                                         THEN "OK" ELSE "Error",
                                     yt_dlp |-> "OK"]],
                      inv, test_search.calls)

\* home
app_home == Response(200, [message |-> "Music Backend API"], <<>>, <<>>)

\* @app.errorhandler(404)
not_found == Response(404, [error |-> "Endpoint not found"], <<>>, <<>>)

\* the answer of Flask to a method the rule of the path does not list
method_not_allowed == Response(405, [error |-> "Method Not Allowed"], <<>>, <<>>)

\* The rules of app.py.  A path is the sequence of its segments, a rule the
\* same with Var for a <converter> segment.
Var == "<>"
url_map ==
    {[rule |-> <<>>, methods |-> {"GET"}, endpoint |-> "home"],
     [rule |-> <<"search">>, methods |-> {"GET"}, endpoint |-> "search_songs"],
     [rule |-> <<"audio", Var>>, methods |-> {"GET"}, endpoint |-> "get_audio_url"],
     [rule |-> <<"homepage">>, methods |-> {"GET"}, endpoint |-> "get_homepage_data"],
     [rule |-> <<"health">>, methods |-> {"GET"}, endpoint |-> "health_check"],
     [rule |-> <<"playlist", Var>>, methods |-> {"GET"}, endpoint |-> "get_ytmusic_playlist"],
     [rule |-> <<"trending", Var>>, methods |-> {"GET"},
      endpoint |-> "get_trending_by_country"],
     [rule |-> <<"recommended", Var>>, methods |-> {"GET"},
      endpoint |-> "get_recommended_songs"]}

Matches(rule, path) ==
    /\ Len(rule) = Len(path)
    /\ \A i \in 1..Len(rule) : rule[i] = Var \/ rule[i] = path[i]

\* the view function a request is handed to
Route(method, path) ==
    IF \E r \in url_map : Matches(r.rule, path) /\ method \in r.methods
    THEN (CHOOSE r \in url_map : Matches(r.rule, path) /\ method \in r.methods).endpoint
    ELSE IF \E r \in url_map : Matches(r.rule, path)
    THEN "method_not_allowed"
    ELSE "not_found"

Request(method, path, q, limit) ==
    [method |-> method, path |-> path, q |-> q, limit |-> limit]

\* the requests test_api.py sends
TestRequests ==
    {Request("GET", <<"health">>, NoneText, NoneText),
     Request("GET", <<"search">>, <<"t", "e", "s", "t", " ", "s", "o", "n", "g">>, <<"3">>),
     Request("POST", <<"extract">>, NoneText, NoneText),
     Request("GET", <<"homepage">>, NoneText, <<"5">>),
     Request("GET", <<"audio", "a">>, NoneText, NoneText),
     Request("GET", <<"category", "pop">>, NoneText, <<"3">>)}

\* other requests a client can send
Requests ==
    TestRequests
    \cup {Request("GET", <<>>, NoneText, NoneText),
          Request("GET", <<"audio", "b">>, NoneText, NoneText),
          Request("POST", <<"search">>, <<"q">>, NoneText),
          Request("GET", <<"search">>, NoneText, NoneText),
          Request("GET", <<"audio">>, NoneText, NoneText)}

\* what the fetches of /audio can answer with: an info can carry an empty url
AudioInfoOutcomes == YdlInfoOutcomes \cup {Ok([id |-> "a", title |-> TitleX, url |-> ""])}

\* the query strings of the requests
QueryParams == {NoneText, <<>>, <<" ">>, <<" ", "q">>}
LimitParams ==
    {NoneText, <<"a", "b", "c">>}
    \cup {IntText(n) : n \in {0 - 1, MaxLimit - 1, MAX_SEARCH_RESULTS, MAX_SEARCH_RESULTS + 1}}

----------------------------------------------------------------------------
(* The state the requests share, and the requests handled side by side *)

CookiePath == "/tmp/youtube_cookies.txt"

\* self.ydl_opts after __init__: of its keys, format and cookiefile
StartupOptions(cookiefile) == [format |-> "bestaudio/best", cookiefile |-> cookiefile]

\* after __init__ and _setup_cookies: no cookies in the environment, or the
\* cookie file written and named in the options
Startup ==
    {[ydl_opts |-> StartupOptions(NoneStr), cookie_file |-> "absent"],
     [ydl_opts |-> StartupOptions(CookiePath), cookie_file |-> "written"]}

\* the YOUTUBE_COOKIES strings: unset, empty, or pieces joined by "; ", a
\* piece being a name=value pair or not
CookieSeparator == <<";", " ">>
EqualsSign == <<"=">>
CookiePieces == {<<"a", "=", "1">>, <<"g">>, <<"c", "=", "2", "=", "3">>}
RECURSIVE Join(_, _)
Join(pieces, sep) ==
    IF Len(pieces) = 1 THEN pieces[1]
    ELSE pieces[1] \o sep \o Join(Tail(pieces), sep)
CookieStrings ==
    {NoneText, <<>>}
    \cup {Join(ps, CookieSeparator) : ps \in SeqsUpTo(CookiePieces, MaxCookies) \ {<<>>}}

\* "for cookie in cookies_string.split('; '): if '=' in cookie:
\*      name, value = cookie.split('=', 1)": the pairs a line is written for
ParsedCookies(cookies_string) ==
    LET kept == SelectSeq(Split(cookies_string, CookieSeparator),
                          LAMBDA cookie : Contains(cookie, EqualsSign))
    IN  [i \in 1..Len(kept) |-> [name |-> SplitOnce(kept[i], EqualsSign)[1],
                                  value |-> SplitOnce(kept[i], EqualsSign)[2]]]

ErrIO == <<"N", "o", " ", "s", "p", "a", "c", "e">>

\* the file operations of _setup_cookies for a string: open, the two header
\* lines, a line per pair
CookieFileSteps(cookies_string) ==
    <<[fn |-> "open", arg |-> CookiePath],
      [fn |-> "f.write", arg |-> "# Netscape HTTP Cookie File"],
      [fn |-> "f.write", arg |-> "# This is a generated file! Do not edit."]>>
    \o [i \in 1..Len(ParsedCookies(cookies_string)) |->
            [fn |-> "f.write", arg |-> ParsedCookies(cookies_string)[i]]]

\* _setup_cookies, the file operation fail_at raising OSError (0: none does):
\* the file operations made, self.ydl_opts and the file after it.  The except
\* clause lets nothing out.
SetupCookies(steps, fail_at) ==
    LET made == IF fail_at = 0 THEN steps ELSE SubSeq(steps, 1, fail_at)
    IN  [calls |-> [i \in 1..Len(made) |->
                       Call(made[i].fn, "", made[i].arg,
                            IF i = fail_at THEN Fail(ErrIO) ELSE Ok(NoneStr))],
         ydl_opts |-> StartupOptions(IF fail_at = 0 THEN CookiePath ELSE NoneStr),
         cookie_file |-> IF fail_at = 0 THEN "written"
                         ELSE IF fail_at = 1 THEN "absent" ELSE "partial"]

_setup_cookies(cookies_string, fail_at) ==
    IF cookies_string = NoneText \/ cookies_string = <<>>
    THEN [calls |-> <<>>, ydl_opts |-> StartupOptions(NoneStr), cookie_file |-> "absent"]
    ELSE SetupCookies(CookieFileSteps(cookies_string), fail_at)

\* where a file operation of _setup_cookies can fail
FailPoints(cookies_string) ==
    IF cookies_string = NoneText \/ cookies_string = <<>> THEN {0}
    ELSE 0..Len(CookieFileSteps(cookies_string))

\* playlistend set in the dict the whole gateway uses
PlaylistOptionsInPlace(opts, max_results) ==
    [local |-> [k \in DOMAIN opts \cup {"playlistend"} |->
                    IF k = "playlistend" THEN max_results ELSE opts[k]],
     shared |-> [k \in DOMAIN opts \cup {"playlistend"} |->
                    IF k = "playlistend" THEN max_results ELSE opts[k]]]

\* ydl_opts = self.ydl_opts.copy(); ydl_opts['playlistend'] = max_results:
\* the dict the call is made with, and self.ydl_opts after it
PlaylistOptions(opts, max_results) ==
    [local |-> [k \in DOMAIN opts \cup {"playlistend"} |->
                    IF k = "playlistend" THEN max_results ELSE opts[k]],
     shared |-> opts]

\* the options an upstream call is made with, and self.ydl_opts after it
OptionsOf(c, opts) ==
    CASE c.opts = "ydl_opts" -> [local |-> opts, shared |-> opts]
      [] c.opts = "ydl_opts+playlistend" -> PlaylistOptions(opts, c.arg.playlistend)
      [] OTHER -> [local |-> [own |-> c.opts], shared |-> opts]

Handlers == {"h1", "h2"}

\* an upstream call that has not answered yet stands in its slot as a failure
Pending(slot) == [ok |-> FALSE, err |-> <<"?">>, slot |-> slot]
IsPending(out) == "slot" \in DOMAIN out
Slots == 1..(3 + Len(popular_searches))
NoAnswers == [k \in Slots |-> Pending(k)]

IdleRequest ==
    [pc |-> "idle", op |-> "none", args |-> <<>>, answers |-> NoAnswers,
     pending |-> <<>>, seen |-> <<>>, calls |-> <<>>,
     result |-> [exc |-> FALSE, val |-> NoneStr]]

\* the requests the handler threads serve
ConcurrentRequests ==
    {[op |-> "search_songs", args |-> [query |-> <<"q">>, max_results |-> 2]],
     [op |-> "get_song_details", args |-> [url |-> [kind |-> "watch", vid |-> "a"]]],
     [op |-> "get_audio_url", args |-> [video_id |-> "a"]],
     [op |-> "get_playlist_info", args |-> [playlist_url |-> "PL1", max_results |-> 2]],
     [op |-> "get_category_videos", args |-> [category |-> <<"p", "o", "p">>, max_results |-> 2]],
     [op |-> "get_youtube_homepage_data", args |-> [max_results |-> 4]]}

\* the operation run with the answers its upstream calls have given so far
Run(name, a, answers) ==
    CASE name = "search_songs" ->
            search_songs(a.query, a.max_results, answers[1], answers[2])
      [] name = "get_song_details" ->
            get_song_details(a.url, answers[1], answers[2], answers[3])
      [] name = "get_audio_url" ->
            get_audio_url(a.video_id, answers[1], answers[2])
      [] name = "get_playlist_info" ->
            get_playlist_info(a.playlist_url, a.max_results, answers[1])
      [] name = "get_category_videos" ->
            get_category_videos(a.category, a.max_results, answers[1], answers[2])
      [] name = "get_youtube_homepage_data" ->
            get_youtube_homepage_data(a.max_results, answers[1], answers[2], answers[3],
                                      [i \in 1..Len(popular_searches) |-> answers[3 + i]])

\* what an upstream call of an operation can answer with
AnswersTo(name, c) ==
    CASE c.fn = "ytmusic.search" -> {Fail(ErrNet), Ok(<<YmA>>)}
      [] c.fn = "ytmusic.get_charts" ->
            {Fail(ErrNet), Ok([countries |-> <<Country("US", <<YmA>>)>>])}
      [] c.fn = "ytmusic.get_home" ->
            {Fail(ErrNet), Ok(<<[title |-> "s", contents |-> <<YmB>>]>>)}
      [] c.fn = "ydl.extract_info" /\ c.opts = "ydl_opts+playlistend" ->
            {Fail(ErrNet), Ok([id |-> "p", entries |-> <<EntB, EntA>>])}
      [] c.fn = "ydl.extract_info" /\ name \in {"get_song_details", "get_audio_url"} ->
            {Fail(ErrBot), Ok(EntA)}
      [] OTHER -> {Fail(ErrBot), Ok([entries |-> <<EntA>>])}

\* the first call of a log that has not answered, 0 when all have
FirstPending(cs) ==
    IF \E i \in 1..Len(cs) : IsPending(cs[i].out)
    THEN CHOOSE i \in 1..Len(cs) :
            IsPending(cs[i].out) /\ \A j \in 1..(i - 1) : ~IsPending(cs[j].out)
    ELSE 0

----------------------------------------------------------------------------
(* The requests *)

Outcome(r) == IF r.exc THEN [exc |-> TRUE, err |-> r.err] ELSE [exc |-> FALSE, val |-> r.val]

Finish(name, a, r) ==
    /\ pc' = "returned"
    /\ op' = name
    /\ args' = a
    /\ invoked' = <<>>
    /\ calls' = r.calls
    /\ result' = Outcome(r)
    /\ UNCHANGED <<ytmusic, ydl_opts, cookie_file, requests>>

\* an upstream answer is drawn only for a call that is made
NotCalled == Fail(ErrNet)
IfCalled(called, S) == IF called THEN S ELSE {NotCalled}

SearchSongs ==
    /\ pc = "idle"
    /\ \E query \in Queries, max_results \in Limits :
       \E ym \in IfCalled(ytmusic, YmSearchOutcomes) :
       \E yd \in IfCalled(~(ytmusic /\ ym.ok), YdlListOutcomes) :
        Finish("search_songs", [query |-> query, max_results |-> max_results],
               search_songs(query, max_results, ym, yd))

GetSongDetails ==
    /\ pc = "idle"
    /\ \E url \in Urls :
       \E ym \in IfCalled(ytmusic /\ _extract_video_id_from_url(url) # NoneStr,
                          YmDetailOutcomes) :
       \E yd \in IfCalled(~(ytmusic /\ _extract_video_id_from_url(url) # NoneStr)
                             \/ SongDetailsPrimary(_extract_video_id_from_url(url), ym) = NoneDict,
                          YdlInfoOutcomes) :
       \E ymin \in IfCalled(FetchDetails(yd).exc /\ IsBotDetection(FetchDetails(yd).err),
                            YdlInfoOutcomes) :
        Finish("get_song_details", [url |-> url], get_song_details(url, ym, yd, ymin))

GetAudioUrl ==
    /\ pc = "idle"
    /\ \E video_id \in Ids :
       \E yd \in YdlInfoOutcomes :
       \E yfb \in IfCalled(FetchAudio(yd).exc /\ IsBotDetection(FetchAudio(yd).err),
                           YdlInfoOutcomes) :
        Finish("get_audio_url", [video_id |-> video_id], get_audio_url(video_id, yd, yfb))

GetPlaylistInfo ==
    /\ pc = "idle"
    /\ \E playlist_url \in PlaylistUrls, max_results \in Limits :
       \E yd \in YdlListOutcomes :
        Finish("get_playlist_info",
               [playlist_url |-> playlist_url, max_results |-> max_results],
               get_playlist_info(playlist_url, max_results, yd))

GetCategoryVideos ==
    /\ pc = "idle"
    /\ \E category \in Categories, max_results \in Limits :
       \E ym \in IfCalled(ytmusic, YmSearchOutcomes) :
       \E yd \in IfCalled(~(ytmusic /\ ym.ok), YdlListOutcomes) :
        Finish("get_category_videos",
               [category |-> category, max_results |-> max_results],
               get_category_videos(category, max_results, ym, yd))

GetYoutubeHomepageData ==
    /\ pc = "idle"
    /\ \E max_results \in HomeLimits :
       \E c \in IfCalled(ytmusic, ChartsOutcomes) :
       \E h \in IfCalled(ytmusic /\ Len(ChartsStep(max_results, c)) < max_results,
                         HomeOutcomes) :
       \E p \in IfCalled(ytmusic /\ Len(IF Len(ChartsStep(max_results, c)) < max_results
                                        THEN HomeStep(ChartsStep(max_results, c), max_results, h)
                                        ELSE ChartsStep(max_results, c)) < max_results,
                         PopularOutcomes) :
       \E f \in IF ytmusic THEN {[i \in 1..Len(popular_searches) |-> NotCalled]}
                ELSE [1..Len(popular_searches) -> TermOutcomes] :
        Finish("get_youtube_homepage_data", [max_results |-> max_results],
               get_youtube_homepage_data(max_results, c, h, p, f))

\* a function called by itself made no upstream call
WithCalls(r, cs) == IF r.exc THEN Raise(r.err, cs) ELSE Ret(r.val, cs)

FormatDuration ==
    /\ pc = "idle"
    /\ \E duration \in Durations :
        Finish("format_duration", [duration |-> duration],
               WithCalls(format_duration(duration), <<>>))

ExtractSongMetadata ==
    /\ pc = "idle"
    /\ \E entry \in NormEntries :
        Finish("extract_song_metadata", [entry |-> entry],
               WithCalls(extract_song_metadata(entry), <<>>))

\* a handler answers: nothing it calls raises past it
Answer(route, a, r) ==
    /\ pc' = "returned"
    /\ op' = route
    /\ args' = a
    /\ invoked' = r.invoked
    /\ calls' = r.calls
    /\ result' = [exc |-> FALSE, val |-> [status |-> r.status, body |-> r.body]]
    /\ UNCHANGED <<ytmusic, ydl_opts, cookie_file, requests>>

\* GET /search
Search ==
    /\ pc = "idle"
    /\ \E q \in QueryParams, limit \in LimitParams :
       \E ym \in IfCalled(ytmusic /\ Strip(ArgText(q, <<>>)) # <<>>, YmSearchOutcomes) :
       \E yd \in IfCalled(Strip(ArgText(q, <<>>)) # <<>> /\ ~(ytmusic /\ ym.ok),
                          YdlListOutcomes) :
        Answer("/search", [q |-> q, limit |-> limit], app_search_songs(q, limit, ym, yd))

\* GET /homepage
Homepage ==
    /\ pc = "idle"
    /\ \E limit \in LimitParams :
       LET max_results == ClampLimit(ArgInt(limit, HomepageDefaultLimit))
       IN  \E c \in IfCalled(ytmusic, ChartsOutcomes) :
           \E h \in IfCalled(ytmusic /\ Len(ChartsStep(max_results, c)) < max_results,
                             HomeOutcomes) :
           \E p \in IfCalled(ytmusic
                               /\ Len(IF Len(ChartsStep(max_results, c)) < max_results
                                      THEN HomeStep(ChartsStep(max_results, c), max_results, h)
                                      ELSE ChartsStep(max_results, c)) < max_results,
                             PopularOutcomes) :
           \E f \in IF ytmusic THEN {[i \in 1..Len(popular_searches) |-> NotCalled]}
                    ELSE [1..Len(popular_searches) -> TermOutcomes] :
            Answer("/homepage", [limit |-> limit], app_get_homepage_data(limit, c, h, p, f))

\* GET /playlist/<playlist_id>
Playlist ==
    /\ pc = "idle"
    /\ \E playlist_id \in PlaylistIdParams, limit \in LimitParams :
       \E ym \in IfCalled(ytmusic /\ playlist_id # WatchPageUrl, YmPlaylistOutcomes) :
       \E yd \in IfCalled(playlist_id # WatchPageUrl
                            /\ (~ytmusic \/ ~ym.ok \/ ym.val = NoneDict),
                          YdlListOutcomes) :
        Answer("/playlist", [playlist_id |-> playlist_id, limit |-> limit],
               app_get_ytmusic_playlist(playlist_id, limit, ym, yd))

\* GET /trending/<country_code>
Trending ==
    /\ pc = "idle"
    /\ \E country_code \in CountryCodes, limit \in LimitParams :
       \E h \in IfCalled(ytmusic, TrendingHomeOutcomes) :
       \E t \in IF ytmusic /\ ~h.ok
                THEN [1..Len(trending_terms) -> TrendingSearchOutcomes]
                ELSE {[i \in 1..Len(trending_terms) |-> NotCalled]} :
        Answer("/trending", [country_code |-> country_code, limit |-> limit],
               app_get_trending_by_country(country_code, limit, h, t))

\* GET /recommended/<video_id>
Recommended ==
    /\ pc = "idle"
    /\ \E video_id \in Ids, limit \in LimitParams :
       \E w \in IfCalled(ytmusic, YmWatchOutcomes) :
        Answer("/recommended", [video_id |-> video_id, limit |-> limit],
               app_get_recommended_songs(video_id, limit, w))

\* GET /audio/<video_id>, as Flask routes it
ServeAudio ==
    /\ pc = "idle"
    /\ \E rq \in Requests :
        /\ Route(rq.method, rq.path) = "get_audio_url"
        /\ \E yd \in AudioInfoOutcomes :
           \E yfb \in IfCalled(FetchAudio(yd).exc /\ IsBotDetection(FetchAudio(yd).err),
                               AudioInfoOutcomes) :
            Answer("/audio", rq, app_get_audio_url(rq.path[2], yd, yfb))

\* GET /health
ServeHealth ==
    /\ pc = "idle"
    /\ \E rq \in Requests :
        /\ Route(rq.method, rq.path) = "health_check"
        /\ \E ym \in IfCalled(ytmusic, YmSearchOutcomes) :
           \E yd \in IfCalled(~(ytmusic /\ ym.ok), YdlListOutcomes) :
            Answer("/health", rq, app_health_check(ym, yd))

\* GET /search, as Flask routes it
ServeSearch ==
    /\ pc = "idle"
    /\ \E rq \in Requests :
        /\ Route(rq.method, rq.path) = "search_songs"
        /\ \E ym \in IfCalled(ytmusic /\ Strip(ArgText(rq.q, <<>>)) # <<>>,
                              YmSearchOutcomes) :
           \E yd \in IfCalled(Strip(ArgText(rq.q, <<>>)) # <<>> /\ ~(ytmusic /\ ym.ok),
                              YdlListOutcomes) :
            Answer("/search", rq, app_search_songs(rq.q, rq.limit, ym, yd))

\* GET /homepage, as Flask routes it
ServeHomepageStep(rq, max_results) ==
    \E c \in IfCalled(ytmusic, ChartsOutcomes) :
    \E h \in IfCalled(ytmusic /\ Len(ChartsStep(max_results, c)) < max_results,
                      HomeOutcomes) :
    \E p \in IfCalled(ytmusic
                        /\ Len(IF Len(ChartsStep(max_results, c)) < max_results
                               THEN HomeStep(ChartsStep(max_results, c), max_results, h)
                               ELSE ChartsStep(max_results, c)) < max_results,
                      PopularOutcomes) :
    \E f \in IF ytmusic THEN {[i \in 1..Len(popular_searches) |-> NotCalled]}
             ELSE [1..Len(popular_searches) -> TermOutcomes] :
        Answer("/homepage", rq, app_get_homepage_data(rq.limit, c, h, p, f))

ServeHomepage ==
    /\ pc = "idle"
    /\ \E rq \in Requests :
        /\ Route(rq.method, rq.path) = "get_homepage_data"
        /\ ServeHomepageStep(rq, ClampLimit(ArgInt(rq.limit, HomepageDefaultLimit)))

\* GET /
ServeHome ==
    /\ pc = "idle"
    /\ \E rq \in Requests :
        /\ Route(rq.method, rq.path) = "home"
        /\ Answer("/", rq, app_home)

\* a request no rule matches
NotFound ==
    /\ pc = "idle"
    /\ \E rq \in Requests :
        /\ Route(rq.method, rq.path) = "not_found"
        /\ Answer("404", rq, not_found)

\* a request whose path has a rule that does not list its method
MethodNotAllowed ==
    /\ pc = "idle"
    /\ \E rq \in Requests :
        /\ Route(rq.method, rq.path) = "method_not_allowed"
        /\ Answer("405", rq, method_not_allowed)

\* the caller has its answer; the next request starts from nothing
RequestDone ==
    /\ pc = "returned"
    /\ pc' = "idle"
    /\ op' = "none"
    /\ args' = <<>>
    /\ invoked' = <<>>
    /\ calls' = <<>>
    /\ result' = [exc |-> FALSE, val |-> NoneStr]
    /\ UNCHANGED <<ytmusic, ydl_opts, cookie_file, requests>>

\* a handler thread takes a request
Start(t) ==
    /\ requests[t].pc = "idle"
    /\ \E rq \in ConcurrentRequests :
        requests' = [requests EXCEPT ![t] =
                        [IdleRequest EXCEPT !.pc = "running", !.op = rq.op, !.args = rq.args]]
    /\ UNCHANGED <<ytmusic, pc, op, args, invoked, calls, result, ydl_opts, cookie_file>>

\* the operation of thread t, run as far as r, makes its next upstream call
\* with the options it reads now
IssueStep(t, r) ==
    /\ FirstPending(r.calls) # 0
    /\ requests' = [requests EXCEPT
          ![t].pc = "waiting",
          ![t].pending = r.calls[FirstPending(r.calls)],
          ![t].seen = Append(@, OptionsOf(r.calls[FirstPending(r.calls)], ydl_opts).local)]
    /\ ydl_opts' = OptionsOf(r.calls[FirstPending(r.calls)], ydl_opts).shared
    /\ UNCHANGED <<ytmusic, pc, op, args, invoked, calls, result, cookie_file>>

IssueCall(t) ==
    /\ requests[t].pc = "running"
    /\ \E r \in {Run(requests[t].op, requests[t].args, requests[t].answers)} :
        IssueStep(t, r)

\* the upstream call thread t waits for returns or fails
UpstreamAnswers(t) ==
    /\ requests[t].pc = "waiting"
    /\ \E out \in AnswersTo(requests[t].op, requests[t].pending) :
        requests' = [requests EXCEPT
            ![t].pc = "running",
            ![t].answers[requests[t].pending.out.slot] = out]
    /\ UNCHANGED <<ytmusic, pc, op, args, invoked, calls, result, ydl_opts, cookie_file>>

\* the operation of thread t, with no call left to make, returns
ReturnStep(t, r) ==
    /\ FirstPending(r.calls) = 0
    /\ requests' = [requests EXCEPT
          ![t].pc = "returned", ![t].calls = r.calls, ![t].result = Outcome(r)]
    /\ UNCHANGED <<ytmusic, pc, op, args, invoked, calls, result, ydl_opts, cookie_file>>

Return(t) ==
    /\ requests[t].pc = "running"
    /\ \E r \in {Run(requests[t].op, requests[t].args, requests[t].answers)} :
        ReturnStep(t, r)

\* the response is sent; the thread is free for the next request
Collect(t) ==
    /\ requests[t].pc = "returned"
    /\ requests' = [requests EXCEPT ![t] = IdleRequest]
    /\ UNCHANGED <<ytmusic, pc, op, args, invoked, calls, result, ydl_opts, cookie_file>>

\* the process has started and app.py has not built its MusicExtractor yet
Boot ==
    /\ ytmusic = FALSE
    /\ pc = "boot"
    /\ op = "none"
    /\ args = <<>>
    /\ invoked = <<>>
    /\ calls = <<>>
    /\ result = [exc |-> FALSE, val |-> NoneStr]
    /\ ydl_opts = NoneDict
    /\ cookie_file = "absent"
    /\ requests = [t \in Handlers |-> IdleRequest]

\* MusicExtractor(): YTMusic() succeeds or raises, then _setup_cookies
ConstructStep(cookies_string, client, set_up) ==
    /\ pc' = "returned"
    /\ op' = "__init__"
    /\ args' = [cookies_string |-> cookies_string]
    /\ invoked' = <<>>
    /\ calls' = set_up.calls
    /\ result' = [exc |-> FALSE, val |-> NoneStr]
    /\ ytmusic' = client
    /\ ydl_opts' = set_up.ydl_opts
    /\ cookie_file' = set_up.cookie_file
    /\ UNCHANGED requests

Construct ==
    /\ pc = "boot"
    /\ \E cookies_string \in CookieStrings, client \in BOOLEAN :
       \E fail_at \in FailPoints(cookies_string) :
        ConstructStep(cookies_string, client, _setup_cookies(cookies_string, fail_at))

Init ==
    /\ ytmusic \in BOOLEAN
    /\ pc = "idle"
    /\ op = "none"
    /\ args = <<>>
    /\ invoked = <<>>
    /\ calls = <<>>
    /\ result = [exc |-> FALSE, val |-> NoneStr]
    /\ \E startup \in Startup :
          /\ ydl_opts = startup.ydl_opts
          /\ cookie_file = startup.cookie_file
    /\ requests = [t \in Handlers |-> IdleRequest]

Next ==
    \/ SearchSongs
    \/ GetSongDetails
    \/ GetAudioUrl
    \/ GetPlaylistInfo
    \/ GetCategoryVideos
    \/ GetYoutubeHomepageData
    \/ RequestDone

Spec == Init /\ [][Next]_vars

\* the normalizers called by themselves
NormalizerNext ==
    \/ FormatDuration
    \/ ExtractSongMetadata
    \/ RequestDone

NormalizerSpec == Init /\ [][NormalizerNext]_vars

\* the requests that carry a limit, as app.py serves them
HandlerNext ==
    \/ Search
    \/ Homepage
    \/ Playlist
    \/ Trending
    \/ Recommended
    \/ RequestDone

HandlerSpec == Init /\ [][HandlerNext]_vars

\* the requests of clients, as Flask routes them to the view functions
EndpointNext ==
    \/ ServeAudio
    \/ ServeHealth
    \/ ServeSearch
    \/ ServeHomepage
    \/ ServeHome
    \/ NotFound
    \/ MethodNotAllowed
    \/ RequestDone

EndpointSpec == Init /\ [][EndpointNext]_vars

\* requests handled side by side, a step being an upstream call made or
\* answered.  Every upstream call answers, and a running thread, which can
\* always make its next call or return, does not stand still for ever: as
\* IssueCall(t) \/ Return(t) is enabled exactly when thread t is running, and
\* its steps are the only ones that end this, the second condition is
\* WF_vars(IssueCall(t) \/ Return(t)) written by its meaning.
ConcurrentNext ==
    \/ \E t \in Handlers : Start(t)
    \/ \E t \in Handlers : IssueCall(t)
    \/ \E t \in Handlers : UpstreamAnswers(t)
    \/ \E t \in Handlers : Return(t)
    \/ \E t \in Handlers : Collect(t)

ConcurrentSpec ==
    /\ Init
    /\ [][ConcurrentNext]_vars
    /\ \A t \in Handlers : []<>(requests[t].pc # "running")
    /\ \A t \in Handlers : WF_vars(UpstreamAnswers(t))

\* the construction of the gateway when the process starts
StartupNext ==
    \/ Construct
    \/ RequestDone

StartupSpec == Boot /\ [][StartupNext]_vars

----------------------------------------------------------------------------
(* Properties of one request, read off the answer and the log of upstream   *)
(* calls it made                                                             *)

Returned(name) == pc = "returned" /\ op = name
IsYtmusicCall(c) ==
    c.fn \in {"ytmusic.search", "ytmusic.get_charts", "ytmusic.get_home",
              "ytmusic.get_playlist", "ytmusic.get_watch_playlist"}
IsExtraction(c) == c.fn = "ydl.extract_info"
FailedBotClass(c) == ~c.out.ok /\ IsBotDetection(c.out.err)
AllFailed == calls # <<>> /\ \A i \in 1..Len(calls) : ~calls[i].out.ok
CallsWhere(P(_)) == {i \in 1..Len(calls) : P(calls[i])}

\* the records of the answer, for the operations that answer with records
ResultList ==
    CASE op \in {"search_songs", "get_category_videos"} -> result.val
      [] op = "get_youtube_homepage_data" -> result.val.trending_music
      [] op = "get_playlist_info" ->
            IF result.val = NoneDict THEN <<>> ELSE result.val.songs
      [] op = "get_song_details" ->
            IF result.val = NoneDict THEN <<>> ELSE <<result.val>>
      [] OTHER -> <<>>

\* C1: no gateway operation raises to its caller, whatever the upstream calls
\* answer; when every upstream call of the request failed, search_songs and
\* get_category_videos answer the empty list and get_song_details,
\* get_audio_url and get_playlist_info answer None.
C1_NoErrorCrossesTheGateway ==
    pc = "returned" =>
        /\ ~result.exc
        /\ AllFailed =>
            /\ op \in {"search_songs", "get_category_videos"} => result.val = <<>>
            /\ op \in {"get_song_details", "get_playlist_info"} => result.val = NoneDict
            /\ op = "get_audio_url" => result.val = NoneStr

\* get_song_details after the lookup, the fetch and the minimal fetch all failed
C1_Witness ==
    /\ Returned("get_song_details")
    /\ Len(calls) = 3
    /\ AllFailed
    /\ result = [exc |-> FALSE, val |-> NoneDict]

\* C2: when self.ytmusic is None, a request of search_songs, get_song_details,
\* get_playlist_info, get_youtube_homepage_data or get_category_videos makes no
\* ytmusicapi call, all its calls being yt-dlp extractions (at least one), and
\* no request changes self.ytmusic.
C2_UnavailableClientIsNeverCalled ==
    /\ [](pc = "returned" /\ ~ytmusic /\ op # "get_audio_url" =>
            /\ calls # <<>>
            /\ \A i \in 1..Len(calls) : IsExtraction(calls[i]) /\ ~IsYtmusicCall(calls[i]))
    /\ [][ytmusic' = ytmusic]_vars

\* the homepage built by the four yt-dlp searches alone
C2_Witness ==
    /\ Returned("get_youtube_homepage_data")
    /\ ~ytmusic
    /\ Len(calls) = Len(popular_searches)
    /\ result.val.trending_music # <<>>

\* C3: get_audio_url makes the fallback fetch once when the first fetch failed
\* with "Sign in to confirm" or (in any case) "bot" in the error text, and not
\* at all otherwise; when made it is the last call and its result is the answer.
C3_AudioFallbackExactlyOnceOnBotDetection ==
    Returned("get_audio_url") =>
        LET degraded == CallsWhere(LAMBDA c : c.opts = "fallback_opts")
        IN  /\ calls[1].opts = "ydl_opts"
            /\ IF FailedBotClass(calls[1])
               THEN /\ degraded = {2}
                    /\ Len(calls) = 2
                    /\ calls[2].arg = WatchUrl(args.video_id)
                    /\ result.val = _get_audio_url_fallback(args.video_id, calls[2].out).val
               ELSE /\ degraded = {}
                    /\ Len(calls) = 1

\* the fallback fetch found a url after a bot-detection failure
C3_Witness ==
    /\ Returned("get_audio_url")
    /\ Len(calls) = 2
    /\ calls[1].out = Fail(ErrBot)
    /\ calls[2].out.ok
    /\ result.val # NoneStr

\* C4: get_song_details calls in the order ytmusicapi lookup, yt-dlp fetch,
\* minimal fetch: the fetch only when the lookup was skipped, failed or gave no
\* accepted record; the minimal fetch only right after a fetch that failed with
\* a bot-detection text; any other fetch failure answers None with no minimal
\* fetch; no ytmusicapi call after the first call; a record of the minimal
\* fetch has audio_url None.
C4_SongDetailsOrder ==
    Returned("get_song_details") =>
        LET video_id == _extract_video_id_from_url(args.url)
            n == Len(calls)
        IN  /\ \A i \in 1..n :
                /\ IsYtmusicCall(calls[i]) => i = 1 /\ ytmusic /\ video_id # NoneStr
                /\ calls[i].opts = "ydl_opts" =>
                    \/ i = 1 /\ ~(ytmusic /\ video_id # NoneStr)
                    \/ /\ i = 2
                       /\ IsYtmusicCall(calls[1])
                       /\ SongDetailsPrimary(video_id, calls[1].out) = NoneDict
                /\ calls[i].opts = "minimal_opts" =>
                    /\ i > 1
                    /\ i = n
                    /\ calls[i - 1].opts = "ydl_opts"
                    /\ FailedBotClass(calls[i - 1])
                    /\ result.val # NoneDict =>
                        /\ result.val.audio_url = NoneStr
                        /\ result.val.source = "yt-dlp-minimal"
                /\ calls[i].opts = "ydl_opts" /\ ~calls[i].out.ok /\ ~FailedBotClass(calls[i]) =>
                    /\ i = n
                    /\ result.val = NoneDict
            /\ n <= 3

\* the minimal fetch answered after lookup and fetch had failed
C4_Witness ==
    /\ Returned("get_song_details")
    /\ Len(calls) = 3
    /\ calls[3].opts = "minimal_opts"
    /\ result.val # NoneDict
    /\ result.val.source = "yt-dlp-minimal"

\* C5: search_songs makes a yt-dlp search exactly when self.ytmusic is None or
\* the ytmusicapi search failed, then once, with the same query and limit, and
\* answers with its result; a ytmusicapi search that succeeds, even with no
\* result, is the only call of the request.
C5_SearchFallsBackOnlyOnFailure ==
    Returned("search_songs") =>
        LET extractions == CallsWhere(IsExtraction)
            failed == \E i \in 1..Len(calls) : IsYtmusicCall(calls[i]) /\ ~calls[i].out.ok
        IN  /\ (extractions # {}) <=> (~ytmusic \/ failed)
            /\ extractions # {} =>
                /\ extractions = {Len(calls)}
                /\ calls[Len(calls)].arg = [search |-> args.query, n |-> args.max_results]
                /\ result.val = _search_songs_fallback(args.query, args.max_results,
                                                       calls[Len(calls)].out).val
            /\ (\E i \in 1..Len(calls) : IsYtmusicCall(calls[i]) /\ calls[i].out.ok) =>
                /\ Len(calls) = 1
                /\ calls[1].arg = [search |-> args.query, n |-> args.max_results]

\* the yt-dlp search answered after the ytmusicapi search had failed
C5_Witness ==
    /\ Returned("search_songs")
    /\ ytmusic
    /\ Len(calls) = 2
    /\ ~calls[1].out.ok
    /\ result.val # <<>>

\* C6: when ytmusicapi is available and its charts call, its home-feed call
\* and its popularity search all fail, get_youtube_homepage_data runs the
\* yt-dlp popularity searches of _get_homepage_data_fallback.
C6_HomepageFallsBackOnPrimaryFailure ==
    ( /\ Returned("get_youtube_homepage_data")
      /\ ytmusic
      /\ \A fn \in {"ytmusic.get_charts", "ytmusic.get_home", "ytmusic.search"} :
            \E i \in 1..Len(calls) : calls[i].fn = fn
      /\ \A i \in 1..Len(calls) : IsYtmusicCall(calls[i]) => ~calls[i].out.ok )
    => \E i \in 1..Len(calls) : IsExtraction(calls[i])

\* the three ytmusicapi calls failed and the answer is the empty homepage,
\* with no yt-dlp search made
C6_PrimaryFailureAnswersEmpty ==
    /\ Returned("get_youtube_homepage_data")
    /\ ytmusic
    /\ Len(calls) = 3
    /\ AllFailed
    /\ result = [exc |-> FALSE, val |-> [trending_music |-> <<>>, total_results |-> 0]]

\* C7: every record an operation returns has an id that is not None: a raw
\* entry without videoId / id gives no record.
C7_EveryRecordHasAnId ==
    pc = "returned" =>
        \A i \in 1..Len(ResultList) :
            ResultList[i] # NoneDict => ResultList[i].id # NoneStr

\* a ytmusicapi result without videoId came back as a record whose id is None
C7_RecordWithoutId ==
    /\ Returned("search_songs")
    /\ IsYtmusicCall(calls[1])
    /\ calls[1].out.ok
    /\ calls[1].out.val = <<YmNoId>>
    /\ Len(result.val) = 1
    /\ result.val[1] # NoneDict
    /\ result.val[1].id = NoneStr

\* the records of the entries of a batch that normalize, in order
Normalized(entries) ==
    LET good == SelectSeq(entries, LAMBDA e :
                    e # NoneDict /\ ~extract_song_metadata(e).exc)
    IN  [i \in 1..Len(good) |-> extract_song_metadata(good[i]).val]
Converted(results) ==
    LET good == SelectSeq(results, LAMBDA r : _convert_ytmusic_to_standard(r) # NoneDict)
    IN  [i \in 1..Len(good) |-> _convert_ytmusic_to_standard(good[i])]
HasEntries(c) ==
    IsExtraction(c) /\ c.out.ok /\ c.out.val # NoneDict /\ "entries" \in DOMAIN c.out.val

\* C8: a returned list holds no None, and search_songs, get_category_videos
\* and get_playlist_info return the records of all entries of the batch that
\* normalize, in order, on the ytmusicapi path and on the yt-dlp path.
C8_OnlyTheOffendingEntryIsDropped ==
    pc = "returned" /\ op # "get_audio_url" /\ op # "get_song_details" =>
        LET last == calls[Len(calls)]
        IN  /\ \A i \in 1..Len(ResultList) : ResultList[i] # NoneDict
            /\ op = "search_songs" /\ IsYtmusicCall(last) /\ last.out.ok =>
                result.val = Converted(last.out.val)
            /\ op = "search_songs" /\ HasEntries(last) =>
                result.val = Normalized(last.out.val.entries)
            /\ op = "get_category_videos" /\ IsYtmusicCall(last) /\ last.out.ok =>
                result.val = [i \in 1..Len(Converted(last.out.val)) |->
                                 WithCategory(Converted(last.out.val)[i], args.category)]
            /\ op = "get_category_videos" /\ HasEntries(last) =>
                result.val = [i \in 1..Len(Normalized(last.out.val.entries)) |->
                                 WithCategory(Normalized(last.out.val.entries)[i],
                                              args.category)]
            /\ op = "get_playlist_info" /\ HasEntries(last) =>
                /\ result.val # NoneDict
                /\ result.val.songs = Normalized(last.out.val.entries)

\* search_songs returned a list with None in the place of the malformed result
C8_NoneInReturnedList ==
    /\ Returned("search_songs")
    /\ IsYtmusicCall(calls[1])
    /\ calls[1].out.ok
    /\ calls[1].out.val = <<YmA, YmBad, YmB>>
    /\ Len(result.val) = 3
    /\ result.val[2] = NoneDict

\* the items a search or listing call answered with
ItemsReturned(c) ==
    IF ~c.out.ok THEN 0
    ELSE IF c.fn = "ytmusic.search" THEN Len(c.out.val)
    ELSE IF HasEntries(c) THEN Len(c.out.val.entries)
    ELSE 0

\* C9: with a limit of at least 1 and a provider call that answered with at
\* least limit items, the list of search_songs, get_category_videos,
\* get_youtube_homepage_data and get_playlist_info has at most limit elements.
C9_AtMostLimitElements ==
    ( /\ pc = "returned"
      /\ op \in {"search_songs", "get_category_videos", "get_youtube_homepage_data",
                 "get_playlist_info"}
      /\ args.max_results >= 1
      /\ \E i \in 1..Len(calls) : ItemsReturned(calls[i]) >= args.max_results )
    => Len(ResultList) <= args.max_results

\* search_songs with limit 1 returned the two records the provider answered with
C9_MoreThanLimit ==
    /\ Returned("search_songs")
    /\ args.max_results = 1
    /\ ytmusic
    /\ Len(calls) = 1
    /\ Len(result.val) = 2

\* C10: trending_music never holds two records with the same id, on the
\* ytmusicapi path and on the yt-dlp path.
C10_TrendingHasNoDuplicateId ==
    Returned("get_youtube_homepage_data") =>
        LET trending == result.val.trending_music
        IN  \A i, j \in 1..Len(trending) : i # j => trending[i].id # trending[j].id

\* the chart song came back a second time from the popularity search
C10_DuplicateFromChartsAndPopular ==
    /\ Returned("get_youtube_homepage_data")
    /\ ytmusic
    /\ args.max_results = 2
    /\ Len(result.val.trending_music) = 2
    /\ result.val.trending_music[1].id = "a"
    /\ result.val.trending_music[2].id = "a"
    /\ result.val.trending_music[1].category = "trending"
    /\ result.val.trending_music[2].category = "popular"

\* the merged list of the homepage fallback, before de-duplication, as the
\* answers of its four searches give it
MergedVideos ==
    FallbackTerms(<<>>, 1, args.max_results,
                  [i \in 1..Len(popular_searches) |-> calls[i].out])
\* the records of a list that no earlier record shares the id of, in order
FirstOccurrences(videos) ==
    LET first == {i \in 1..Len(videos) : \A j \in 1..(i - 1) : videos[j].id # videos[i].id}
        Rank(i) == Cardinality({j \in first : j <= i})
    IN  [k \in 1..Cardinality(first) |-> videos[CHOOSE i \in first : Rank(i) = k]]

\* C11: the de-duplication of _get_homepage_data_fallback keeps, of the merged
\* list, exactly the first record of each id, in the order of the merged list:
\* trending_music is that list cut to max_results and total_results its length.
C11_FirstOccurrenceWins ==
    Returned("get_youtube_homepage_data") /\ ~ytmusic =>
        /\ result.val.trending_music =
               SliceTo(FirstOccurrences(MergedVideos), args.max_results)
        /\ result.val.total_results = Len(FirstOccurrences(MergedVideos))

\* the third search answered with the video of the first: it was dropped, the
\* record of the first search kept, in front of the record of the second
C11_Witness ==
    /\ Returned("get_youtube_homepage_data")
    /\ ~ytmusic
    /\ Len(MergedVideos) = 3
    /\ MergedVideos[1].id = "a" /\ MergedVideos[2].id = "b" /\ MergedVideos[3].id = "a"
    /\ Len(result.val.trending_music) = 2
    /\ result.val.trending_music[1] = MergedVideos[1]
    /\ result.val.trending_music[2] = MergedVideos[2]
    /\ MergedVideos[3] # MergedVideos[1]

\* C17: format_duration never raises, and answers "Unknown" for None, for
\* zero, for every negative number and for every input that is no number.
C17_UnknownForInvalidDuration ==
    Returned("format_duration") =>
        LET duration == args.duration
            invalid == \/ duration.kind = "none"
                       \/ duration.kind = "int" /\ duration.n <= 0
                       \/ duration.kind = "float" /\ duration.twice <= 0
                       \/ duration.kind = "str" /\ ~ToInt(duration).ok
        IN  /\ ~result.exc
            /\ invalid => result.val = Unknown

\* format_duration(-5) answered "59:55"
C17_NegativeIsFormatted ==
    /\ Returned("format_duration")
    /\ args.duration = DurInt(0 - 5)
    /\ result = [exc |-> FALSE, val |-> <<"5", "9", ":", "5", "5">>]

\* a number below 100 in two digits
TwoDigits(k) == <<DigitChars[(k \div 10) + 1], DigitChars[(k % 10) + 1]>>

\* C18: for an int of at least 1 second, with h = seconds div 3600,
\* m = (seconds mod 3600) div 60 and s = seconds mod 60, format_duration
\* answers "MM:SS" when h = 0 and "HH:MM:SS" when h > 0, each part padded with
\* zeros to two digits, where m and s are at most 59 and
\* h*3600 + m*60 + s = seconds.
C18_DurationIsFormatted ==
    Returned("format_duration") /\ args.duration.kind = "int" /\ args.duration.n >= 1 =>
        LET seconds == args.duration.n
            h == seconds \div 3600
            m == (seconds % 3600) \div 60
            sec == seconds % 60
            hh == IF h < 100 THEN TwoDigits(h) ELSE Decimal(h)
        IN  /\ m \in 0..59 /\ sec \in 0..59
            /\ h * 3600 + m * 60 + sec = seconds
            /\ ~result.exc
            /\ result.val = IF h = 0 THEN TwoDigits(m) \o <<":">> \o TwoDigits(sec)
                            ELSE hh \o <<":">> \o TwoDigits(m) \o <<":">> \o TwoDigits(sec)

\* format_duration(3725) answered "01:02:05"
C18_Witness ==
    /\ Returned("format_duration")
    /\ args.duration = DurInt(3725)
    /\ result = [exc |-> FALSE, val |-> <<"0", "1", ":", "0", "2", ":", "0", "5">>]

\* str.count(sub)
Occurrences(t, sub) == Len(Split(t, sub)) - 1
RawTitle == Get(args.entry, "title", UnknownTitle)
Uploader == Get(args.entry, "uploader", UnknownArtist)
TitleWasParsed ==
    /\ Returned("extract_song_metadata")
    /\ args.entry # NoneDict
    /\ RawTitle # NoneText
    /\ ~result.exc

\* C19, as stated: with " - " in the raw title, artist is the part before its
\* first occurrence and title the part after it, whatever " by " it holds;
\* otherwise, with " by " exactly once in the lower-cased title, title is the
\* part before and artist the part after, both title-cased; otherwise title is
\* the raw title and artist the uploader.
C19_SplitPrecedenceAsStated ==
    TitleWasParsed =>
        LET lowered == Lower(RawTitle)
            i == Find(RawTitle, DashSeparator)
            j == Find(lowered, BySeparator)
        IN  IF i > 0
            THEN /\ result.val.artist = SubSeq(RawTitle, 1, i - 1)
                 /\ result.val.title = SubSeq(RawTitle, i + 3, Len(RawTitle))
            ELSE IF Occurrences(lowered, BySeparator) = 1
            THEN /\ result.val.title = TitleCase(SubSeq(lowered, 1, j - 1))
                 /\ result.val.artist = TitleCase(SubSeq(lowered, j + 4, Len(lowered)))
            ELSE /\ result.val.title = RawTitle
                 /\ result.val.artist = Uploader

\* C19, amended: the same precedence, each part with the blanks around it
\* removed.
C19_SplitPrecedence ==
    TitleWasParsed =>
        LET lowered == Lower(RawTitle)
            i == Find(RawTitle, DashSeparator)
            j == Find(lowered, BySeparator)
        IN  IF i > 0
            THEN /\ result.val.artist = Strip(SubSeq(RawTitle, 1, i - 1))
                 /\ result.val.title = Strip(SubSeq(RawTitle, i + 3, Len(RawTitle)))
            ELSE IF Occurrences(lowered, BySeparator) = 1
            THEN /\ result.val.title = TitleCase(Strip(SubSeq(lowered, 1, j - 1)))
                 /\ result.val.artist =
                        TitleCase(Strip(SubSeq(lowered, j + 4, Len(lowered))))
            ELSE /\ result.val.title = RawTitle
                 /\ result.val.artist = Uploader

\* "A - b by c" was split at the dash, the " by " left in the title
C19_Witness ==
    /\ Returned("extract_song_metadata")
    /\ args.entry = [id |-> "a", title |-> <<"A", " ", "-", " ", "b", " ", "b", "y", " ", "c">>]
    /\ ~result.exc
    /\ result.val.artist = <<"A">>
    /\ result.val.title = <<"b", " ", "b", "y", " ", "c">>

\* the candidates with audio, and the earliest of them of the highest quality
AudioCandidates(fs) == {i \in 1..Len(fs) : Get(fs[i], "acodec", NoneStr) # "none"}
QualityOf(f) == IF "quality" \in DOMAIN f THEN f.quality ELSE 0
BestCandidate(fs) ==
    CHOOSE i \in AudioCandidates(fs) :
        \A j \in AudioCandidates(fs) :
            \/ QualityOf(fs[j]) < QualityOf(fs[i])
            \/ QualityOf(fs[j]) = QualityOf(fs[i]) /\ i <= j
\* what the selection answers for an entry without url, None when no candidate
\* has audio; nothing is said of a best candidate that has no url
SelectionIs(entry, url) ==
    IF AudioCandidates(entry.formats) = {} THEN url = NoneStr
    ELSE "url" \in DOMAIN entry.formats[BestCandidate(entry.formats)] =>
            url = entry.formats[BestCandidate(entry.formats)].url
NeedsSelection(c) ==
    /\ IsExtraction(c) /\ c.opts = "ydl_opts" /\ c.out.ok
    /\ c.out.val # NoneDict
    /\ "url" \notin DOMAIN c.out.val
    /\ "formats" \in DOMAIN c.out.val

\* C20: for an entry without url, get_audio_url and extract_song_metadata
\* answer with the url of the earliest candidate of the highest quality among
\* the candidates whose acodec is not "none", a missing or null quality
\* counting as 0, and with None when no candidate is left.
C20_BestAudioFormat ==
    /\ Returned("get_audio_url") /\ NeedsSelection(calls[1]) =>
           /\ ~result.exc
           /\ Len(calls) = 1 => SelectionIs(calls[1].out.val, result.val)
    /\ Returned("get_song_details") /\ NeedsSelection(calls[Len(calls)])
            /\ result.val # NoneDict =>
           SelectionIs(calls[Len(calls)].out.val, result.val.audio_url)

\* of two candidates of quality 0 (one without quality, one with a null
\* quality) the earlier was chosen
C20_Witness ==
    /\ Returned("get_audio_url")
    /\ NeedsSelection(calls[1])
    /\ calls[1].out.val.formats = <<FmtAac, FmtNull>>
    /\ result.val = "a0"

\* the limits the gateway was called with by the handler that answered
PassedLimits ==
    {invoked[i].args.max_results :
        i \in {j \in 1..Len(invoked) : "max_results" \in DOMAIN invoked[j].args}}
\* the integers whose text the limit parameter of a request is
RequestedLimits == {ToInt(DurStr(l)).n : l \in {p \in LimitParams \ {NoneText} : ToInt(DurStr(p)).ok}}

\* C16: whatever the limit parameter of a request to /search, /homepage,
\* /playlist, /trending or /recommended, the limit the handler hands to the
\* gateway is at most Config.MAX_SEARCH_RESULTS, and a requested limit at or
\* below the maximum is handed on unchanged.
C16_LimitIsClamped ==
    pc = "returned" =>
        /\ \A m \in PassedLimits : m <= MAX_SEARCH_RESULTS
        /\ \A n \in RequestedLimits :
              args.limit = IntText(n) /\ n <= MAX_SEARCH_RESULTS => PassedLimits \subseteq {n}

\* a playlist request for one more than the maximum reached the gateway with
\* the maximum
C16_Witness ==
    /\ Returned("/playlist")
    /\ args.limit = IntText(MAX_SEARCH_RESULTS + 1)
    /\ PassedLimits = {MAX_SEARCH_RESULTS}

Invoked(name) == \E i \in 1..Len(invoked) : invoked[i].name = name
IsPlaylistLookup(c) == c.fn = "ytmusic.get_playlist"
LookupSucceeded(c) == c.out.ok /\ c.out.val # NoneDict /\ "tracks" \in DOMAIN c.out.val
\* ids, in their order, are ids of the provider's list taken in its order
InProviderOrder(ids, provided) ==
    \E f \in [1..Len(ids) -> 1..Len(provided)] :
        /\ \A j \in 1..Len(ids) : ids[j] = provided[f[j]]
        /\ \A j \in 1..Len(ids), k \in 1..Len(ids) : j < k => f[j] < f[k]
IdsOf(records, key) == [i \in 1..Len(records) |-> Get(records[i], key, NoneStr)]
Present(entries) == SelectSeq(entries, LAMBDA e : e # NoneDict)

\* C14: a request to /playlist that reaches the Playlist operation makes the
\* playlist lookup of the structured-metadata client first when the client is
\* there, and the extraction playlist fetch only when the client is missing or
\* the lookup failed, after it; a playlist it answers with holds the provider's
\* entries in the provider's order.
C14_PlaylistLookupThenFetch ==
    Returned("/playlist") /\ Invoked("get_ytmusic_playlist") =>
        /\ Len(calls) \in 1..2
        /\ ytmusic => IsPlaylistLookup(calls[1])
        /\ ~ytmusic => Len(calls) = 1 /\ IsExtraction(calls[1])
        /\ Len(calls) = 2 =>
              /\ IsExtraction(calls[2])
              /\ ~LookupSucceeded(calls[1])
        /\ result.val.status = 200 =>
              LET last == calls[Len(calls)]
                  playlist == result.val.body.playlist
              IN  /\ last.out.ok
                  /\ IsPlaylistLookup(last) =>
                        InProviderOrder(IdsOf(playlist.entries, "id"),
                                        IdsOf(last.out.val.tracks, "videoId"))
                  /\ IsExtraction(last) =>
                        InProviderOrder(IdsOf(playlist.songs, "id"),
                                        IdsOf(Present(last.out.val.entries), "id"))

\* the lookup failed and the fetch that followed gave a playlist of two songs
C14_Witness ==
    /\ Returned("/playlist")
    /\ ytmusic
    /\ Len(calls) = 2
    /\ IsPlaylistLookup(calls[1]) /\ ~calls[1].out.ok
    /\ IsExtraction(calls[2]) /\ calls[2].out.ok
    /\ result.val.status = 200
    /\ IdsOf(result.val.body.playlist.songs, "id") = <<"b", "a">>

IsWatchNextLookup(c) == c.fn = "ytmusic.get_watch_playlist"

\* C15: a request to /recommended makes no upstream call but the watch-next
\* lookup of the structured-metadata client, and makes it at most once; when
\* the lookup fails nothing is raised, the extraction provider is not
\* contacted and the handler answers 400, the answer for no data, not 500.
C15_RecommendedHasNoFallback ==
    Returned("/recommended") =>
        /\ Len(calls) <= 1
        /\ \A i \in 1..Len(calls) : IsWatchNextLookup(calls[i]) /\ ~IsExtraction(calls[i])
        /\ result.val.status # 500
        /\ (calls # <<>> /\ ~calls[1].out.ok) => result.val.status = 400

\* the lookup failed and the answer is 400
C15_Witness ==
    /\ Returned("/recommended")
    /\ Len(calls) = 1
    /\ IsWatchNextLookup(calls[1])
    /\ ~calls[1].out.ok
    /\ result.val.status = 400

\* the provider path of an upstream call: the client method and the options
ProviderPath(c) == <<c.fn, c.opts>>
InFlight(t) == requests[t].pc \in {"running", "waiting"}
HomepageFallbackRan(rq) == rq.op = "get_youtube_homepage_data" /\ ~ytmusic
EachPathOnce(cs) ==
    \A i \in 1..Len(cs), j \in 1..Len(cs) : i # j => ProviderPath(cs[i]) # ProviderPath(cs[j])
OneSearchPerTerm(cs) ==
    /\ Len(cs) = Len(popular_searches)
    /\ \A i \in 1..Len(cs) : IsExtraction(cs[i]) /\ cs[i].arg.search = popular_searches[i]

\* C12: with every upstream call answering in the end, a gateway operation
\* that was invoked returns in the end; the invocation made no two calls on
\* the same provider path, but for the homepage fallback, which made one
\* search for each of its four terms, in their order, and no other call.
C12_ReturnsAndTriesEachPathOnce ==
    /\ [](\A t \in Handlers : requests[t].pc = "returned" =>
             IF HomepageFallbackRan(requests[t])
             THEN OneSearchPerTerm(requests[t].calls)
             ELSE EachPathOnce(requests[t].calls))
    /\ \A t \in Handlers : InFlight(t) ~> requests[t].pc = "returned"

\* get_song_details returned after its fetch and its minimal fetch, and the
\* homepage fallback after its four searches
C12_Witness ==
    /\ requests["h1"].pc = "returned"
    /\ requests["h1"].op = "get_song_details"
    /\ Len(requests["h1"].calls) = 2
    /\ requests["h2"].pc = "returned"
    /\ HomepageFallbackRan(requests["h2"])
    /\ Len(requests["h2"].calls) = Len(popular_searches)

StartupValues == {startup.ydl_opts : startup \in Startup}
WithoutPlaylistEnd(o) == [k \in DOMAIN o \ {"playlistend"} |-> o[k]]
\* the options thread t made its i-th call with are the shared ones as set at
\* startup, with playlistend added for a playlist fetch alone, or a dict of
\* the call's own
SawStartupOptions(t, i) ==
    LET o == requests[t].seen[i]
    IN  \/ "own" \in DOMAIN o
        \/ /\ requests[t].op # "get_playlist_info"
           /\ o = ydl_opts
        \/ /\ requests[t].op = "get_playlist_info"
           /\ "playlistend" \in DOMAIN o
           /\ o.playlistend = requests[t].args.max_results
           /\ WithoutPlaylistEnd(o) = ydl_opts

\* C13: however the steps of the requests handled side by side fall, no step
\* changes self.ytmusic, self.ydl_opts (its cookiefile entry included) or
\* the cookie file, which stay as startup left them; get_playlist_info sets
\* playlistend on a copy, so every call sees the startup options; and what a
\* request answers is what its operation gives for its own arguments and
\* the answers of its own upstream calls.
C13_SharedStateIsReadOnly ==
    /\ [][ytmusic' = ytmusic /\ ydl_opts' = ydl_opts /\ cookie_file' = cookie_file]_vars
    /\ [](/\ ydl_opts \in StartupValues
          /\ (cookie_file = "written") = (ydl_opts.cookiefile = CookiePath)
          /\ \A t \in Handlers :
                /\ \A i \in 1..Len(requests[t].seen) : SawStartupOptions(t, i)
                /\ requests[t].pc = "returned" =>
                      /\ requests[t].result =
                            Outcome(Run(requests[t].op, requests[t].args, requests[t].answers))
                      /\ Len(requests[t].seen) = Len(requests[t].calls))

\* a playlist fetch and a search each made their call, with cookies in use
C13_Witness ==
    /\ requests["h1"].op = "get_playlist_info"
    /\ requests["h1"].pc = "waiting"
    /\ requests["h1"].seen[1].playlistend = 2
    /\ requests["h2"].op = "search_songs"
    /\ requests["h2"].pc = "returned"
    /\ requests["h2"].seen # <<>>
    /\ requests["h2"].seen[Len(requests["h2"].seen)] = StartupOptions(CookiePath)
    /\ cookie_file = "written"

\* the records of the answer that are there (search_songs lists None for a
\* result it could not convert)
Records == SelectSeq(ResultList, LAMBDA r : r # NoneDict)
FromYtmusic(r) == Get(r, "source", NoneStr) = "ytmusicapi"
\* the answer was built of what a ytmusicapi call gave
AnsweredByYtmusic ==
    /\ calls # <<>>
    /\ IsYtmusicCall(calls[Len(calls)])
    /\ calls[Len(calls)].out.ok

\* C21: in the answer of every operation, a record that came from ytmusicapi
\* (all records of an answer built of ytmusicapi results, tagged source
\* 'ytmusicapi') has audio_url None; and get_audio_url, the call that gives a
\* playable url, makes yt-dlp extractions only.
C21_YtmusicRecordsHaveNoAudioUrl ==
    pc = "returned" =>
        /\ \A i \in 1..Len(Records) :
              /\ AnsweredByYtmusic => FromYtmusic(Records[i])
              /\ FromYtmusic(Records[i]) => Records[i].audio_url = NoneStr
        /\ op = "get_audio_url" =>
              /\ calls # <<>>
              /\ \A i \in 1..Len(calls) : IsExtraction(calls[i]) /\ ~IsYtmusicCall(calls[i])

\* a search answered with two ytmusicapi records
C21_Witness ==
    /\ Returned("search_songs")
    /\ AnsweredByYtmusic
    /\ Len(Records) = 2
    /\ FromYtmusic(Records[1])
    /\ Records[1].id = "a"
    /\ Records[1].audio_url = NoneStr

SourceTags == {"ytmusicapi", "yt-dlp", "yt-dlp-minimal"}
\* the answer was built of what a yt-dlp extraction with the gateway's own
\* options gave
AnsweredByExtraction ==
    /\ calls # <<>>
    /\ IsExtraction(calls[Len(calls)])
    /\ calls[Len(calls)].opts \in {"ydl_opts", "ydl_opts+playlistend"}
    /\ calls[Len(calls)].out.ok

\* C22: every record an operation returns has a source key whose tag names
\* the path that built it, and a record built by a yt-dlp extraction (search,
\* category and homepage fallback, fetch of get_song_details, playlist) has a
\* tag that is neither 'ytmusicapi' nor the tag of the minimal fetch.
C22_EveryRecordHasSourceTag ==
    pc = "returned" =>
        \A i \in 1..Len(Records) :
            /\ "source" \in DOMAIN Records[i]
            /\ Records[i].source \in SourceTags
            /\ AnsweredByExtraction => Records[i].source \notin {"ytmusicapi", "yt-dlp-minimal"}

\* the yt-dlp search answered with a record that has no source key
C22_RecordWithoutSource ==
    /\ Returned("search_songs")
    /\ ~ytmusic
    /\ AnsweredByExtraction
    /\ Len(Records) = 1
    /\ Records[1].id = "a"
    /\ "source" \notin DOMAIN Records[1]

IoFailed == \E i \in 1..Len(calls) : ~calls[i].out.ok
\* the lines written to the cookie file: the pairs of the f.write calls made
WrittenPairs ==
    LET writes == SelectSeq(calls, LAMBDA c : c.fn = "f.write" /\ c.out.ok)
    IN  [i \in 1..(Len(writes) - 2) |-> writes[i + 2].arg]

\* C23: MusicExtractor() never raises; cookiefile is None whenever
\* YOUTUBE_COOKIES is unset, holds no name=value pair, or a file operation
\* failed; and cookiefile is set only when the file was written whole, with
\* the pairs of the string.
C23_CookiesNeverFailStartup ==
    Returned("__init__") =>
        /\ ~result.exc
        /\ ( \/ args.cookies_string = NoneText
             \/ ParsedCookies(args.cookies_string) = <<>>
             \/ IoFailed ) => ydl_opts.cookiefile = NoneStr
        /\ ydl_opts.cookiefile # NoneStr =>
              /\ cookie_file = "written"
              /\ ~IoFailed
              /\ WrittenPairs = ParsedCookies(args.cookies_string)

\* YOUTUBE_COOKIES = "g", which holds no pair: a cookie file of the two header
\* lines is written and cookiefile names it
C23_MalformedStringSetsCookiefile ==
    /\ Returned("__init__")
    /\ args.cookies_string = <<"g">>
    /\ ParsedCookies(args.cookies_string) = <<>>
    /\ Len(calls) = 3
    /\ ~IoFailed
    /\ cookie_file = "written"
    /\ ydl_opts.cookiefile = CookiePath

CategoryKeys(table) == {p[1] : p \in table}
\* the table an upstream call of get_category_videos took its query from
TableOf(c) ==
    IF IsYtmusicCall(c) THEN ytmusic_category_queries ELSE fallback_category_queries
QueryIn(table, key) == (CHOOSE p \in table : p[1] = key)[2]

\* C24: the two tables of get_category_videos have the same ten keys; a
\* category whose lower-cased form is a key is searched for with that key's
\* query of the path's table; every other category is searched for with
\* "<category> music", on the ytmusicapi path and on the yt-dlp path alike.
C24_CategoryQueryMapping ==
    /\ CategoryKeys(ytmusic_category_queries) = CategoryKeys(fallback_category_queries)
    /\ Cardinality(CategoryKeys(ytmusic_category_queries)) = 10
    /\ Cardinality(ytmusic_category_queries) = 10
    /\ Cardinality(fallback_category_queries) = 10
    /\ Returned("get_category_videos") =>
          \A i \in 1..Len(calls) :
              calls[i].arg.search =
                  IF Lower(args.category) \in CategoryKeys(TableOf(calls[i]))
                  THEN QueryIn(TableOf(calls[i]), Lower(args.category))
                  ELSE args.category \o <<" ", "m", "u", "s", "i", "c">>

\* "Pop" was searched as "pop music" with ytmusicapi and, that failing, as
\* "pop music hits" with yt-dlp
C24_Witness ==
    /\ Returned("get_category_videos")
    /\ args.category = <<"P", "o", "p">>
    /\ Len(calls) = 2
    /\ calls[1].arg.search = <<"p", "o", "p", " ", "m", "u", "s", "i", "c">>
    /\ calls[2].arg.search =
          <<"p", "o", "p", " ", "m", "u", "s", "i", "c", " ", "h", "i", "t", "s">>

\* the artist of a ytmusicapi record is a name as ytmusicapi gave it, the
\* artist of a yt-dlp record a text the code may have split
ArtistIsNone(r) == IF FromYtmusic(r) THEN r.artist = NoneStr ELSE r.artist = NoneText

\* C25: every record an operation returns has a title and an artist that are
\* not None; a ytmusicapi result without title gives "Unknown Title", and one
\* without artists, or whose first artist has no name, gives "Unknown Artist".
C25_TitleAndArtistAreNeverNone ==
    pc = "returned" =>
        /\ \A i \in 1..Len(Records) :
              Records[i].title # NoneText /\ ~ArtistIsNone(Records[i])
        /\ op = "get_song_details" /\ AnsweredByYtmusic /\ result.val # NoneDict =>
              LET raw == calls[1].out.val[1]
              IN  /\ "title" \notin DOMAIN raw => result.val.title = UnknownTitle
                  /\ ( \/ Get(raw, "artists", <<>>) = <<>>
                       \/ "name" \notin DOMAIN raw.artists[1] ) =>
                        result.val.artist = "Unknown Artist"

\* the first artist of the ytmusicapi result had no name: the record's
\* artist is None
C25_ArtistIsNone ==
    /\ Returned("get_song_details")
    /\ AnsweredByYtmusic
    /\ calls[1].out.val = <<YmNoName>>
    /\ result.val # NoneDict
    /\ result.val.title = UnknownTitle
    /\ result.val.artist = NoneStr

\* the gateway operation behind each endpoint of test_api.py
TestedOperation(rq) ==
    CASE rq.path[1] = "health" -> "search_songs"
      [] rq.path[1] = "search" -> "search_songs"
      [] rq.path[1] = "extract" -> "get_song_details"
      [] rq.path[1] = "homepage" -> "get_youtube_homepage_data"
      [] rq.path[1] = "audio" -> "get_audio_url"
      [] rq.path[1] = "category" -> "get_category_videos"

\* C26: each request of test_api.py (GET /health, GET /search, POST /extract,
\* GET /homepage, GET /audio/<video_id>, GET /category/<category>) reaches a
\* view function that calls its gateway operation; none is answered by the
\* 404 handler.
C26_TestedEndpointsAreRouted ==
    pc = "returned" /\ args \in TestRequests =>
        /\ op # "404"
        /\ result.val.body # [error |-> "Endpoint not found"]
        /\ Invoked(TestedOperation(args))

\* POST /extract was answered 404 'Endpoint not found' with no gateway call
C26_ExtractIsNotFound ==
    /\ Returned("404")
    /\ args = Request("POST", <<"extract">>, NoneText, NoneText)
    /\ result.val = [status |-> 404, body |-> [error |-> "Endpoint not found"]]
    /\ invoked = <<>>
    /\ calls = <<>>

Truthy(url) == url \notin {NoneStr, ""}

\* C27: GET /audio/<video_id> answers 200 with success true and the url
\* exactly when get_audio_url (its first fetch or its fallback) gave a
\* non-empty url, and 404 whenever it gave none; it never answers 500,
\* whatever the fetches do.
C27_AudioAnswers200Or404 ==
    Returned("/audio") =>
        LET video_id == args.path[2]
            yd == calls[1].out
            yfb == IF Len(calls) > 1 THEN calls[2].out ELSE NotCalled
            first == FetchAudio(yd)
            audio_url == IF ~first.exc THEN first.val
                         ELSE IF IsBotDetection(first.err)
                              THEN _get_audio_url_fallback(video_id, yfb).val
                              ELSE NoneStr
        IN  /\ invoked = <<Invocation("get_audio_url", [video_id |-> video_id])>>
            /\ result.val.status \in {200, 404}
            /\ result.val.status = 200 <=> Truthy(audio_url)
            /\ result.val.status = 200 =>
                  /\ result.val.body.success
                  /\ result.val.body.audio_url = audio_url
                  /\ Truthy(result.val.body.audio_url)
            /\ (Len(calls) > 1) = (first.exc /\ IsBotDetection(first.err))

\* both fetches failed and the answer is 404; the request of the test
C27_Witness ==
    /\ Returned("/audio")
    /\ args \in TestRequests
    /\ Len(calls) = 2
    /\ AllFailed
    /\ result.val.status = 404

\* C28: GET /health answers 200 with status 'healthy' whether the ytmusicapi
\* client is there or not and whether the test search found songs, found
\* nothing or failed with both providers; trouble shows only in the services
\* fields: ytmusic_api is 'Unavailable' exactly without the client and
\* search_function is 'Error' exactly when the search gave nothing.
C28_HealthIsAlwaysHealthy ==
    Returned("/health") =>
        /\ result.val.status = 200
        /\ result.val.body.status = "healthy"
        /\ result.val.body.services.ytmusic_api = (IF ytmusic THEN "OK" ELSE "Unavailable")
        /\ result.val.body.services.search_function \in {"OK", "Error"}
        /\ AllFailed => result.val.body.services.search_function = "Error"
        /\ result.val.body.services.search_function = "OK" => calls[Len(calls)].out.ok
        /\ result.val.body.services.search_function = "Error" =>
              \/ AllFailed
              \/ ~calls[Len(calls)].out.ok
              \/ IsYtmusicCall(calls[Len(calls)]) /\ calls[Len(calls)].out.val = <<>>
              \/ IsExtraction(calls[Len(calls)])
        /\ invoked = <<Invocation("search_songs", [query |-> HealthQuery, max_results |-> 1])>>

\* the search failed with ytmusicapi and with yt-dlp, and the answer is 200
\* healthy with search_function 'Error'
C28_Witness ==
    /\ Returned("/health")
    /\ ytmusic
    /\ Len(calls) = 2
    /\ AllFailed
    /\ result.val.status = 200
    /\ result.val.body.status = "healthy"
    /\ result.val.body.services.search_function = "Error"

Tagged(tag) == SelectSeq(result.val.trending_music, LAMBDA v : v.category = tag)
TagRank(tag) == CASE tag = "trending" -> 1 [] tag = "new_releases" -> 2 [] OTHER -> 3
Made(fn) == \E i \in 1..Len(calls) : calls[i].fn = fn
AtLeastZero(n) == IF n < 0 THEN 0 ELSE n
\* the video ids of the items of the sections of a home feed, in order
RECURSIVE SectionIds(_)
SectionIds(sections) ==
    IF sections = <<>> THEN <<>>
    ELSE IdsOf(Get(Head(sections), "contents", <<>>), "videoId") \o SectionIds(Tail(sections))
HomeAnswer == calls[CHOOSE i \in 1..Len(calls) : calls[i].fn = "ytmusic.get_home"].out

\* C29: on the ytmusicapi path of get_youtube_homepage_data the records
\* tagged 'trending' (of the charts, at most max_results div 2 of them) come
\* before those tagged 'new_releases' (of the first three home-feed sections),
\* which come before those tagged 'popular'; get_home is called exactly when
\* fewer than max_results records stand after the charts step, the popularity
\* search exactly when fewer stand after the home-feed step, whether or not an
\* earlier step failed.
C29_HomepageMergeOrder ==
    Returned("get_youtube_homepage_data") /\ ytmusic =>
        LET trending == result.val.trending_music
        IN  /\ \A i, j \in 1..Len(trending) :
                  i < j => TagRank(trending[i].category) <= TagRank(trending[j].category)
            /\ \A i \in 1..Len(trending) :
                  trending[i].category \in {"trending", "new_releases", "popular"}
            /\ Len(Tagged("trending")) <= AtLeastZero(args.max_results \div 2)
            /\ calls[1].fn = "ytmusic.get_charts"
            /\ Made("ytmusic.get_home") <=> Len(Tagged("trending")) < args.max_results
            /\ Made("ytmusic.search") <=>
                  Len(Tagged("trending")) + Len(Tagged("new_releases")) < args.max_results
            /\ Tagged("new_releases") # <<>> =>
                  /\ Made("ytmusic.get_home")
                  /\ HomeAnswer.ok
                  /\ InProviderOrder(IdsOf(Tagged("new_releases"), "id"),
                                     SectionIds(SliceTo(HomeAnswer.val, 3)))
            /\ Tagged("popular") # <<>> => calls[Len(calls)].fn = "ytmusic.search"

\* for max_results -1 the charts step kept all chart songs but the last
C29_ChartSongsForNegativeLimit ==
    /\ Returned("get_youtube_homepage_data")
    /\ ytmusic
    /\ args.max_results = 0 - 1
    /\ Len(calls) = 1
    /\ calls[1].out.ok
    /\ Len(result.val.trending_music) = 1
    /\ result.val.trending_music[1].category = "trending"

\* C30: the homepage fallback makes one yt-dlp search for each of its four
\* terms, in the order of the list, each asking for max_results div 4 videos;
\* a search that fails does not stop the later ones, whose records are kept;
\* and the merged list never holds more than max_results records.
C30_FallbackSearchesEachTermOnce ==
    Returned("get_youtube_homepage_data") /\ ~ytmusic =>
        /\ Len(popular_searches) = 4
        /\ Len(calls) = 4
        /\ \A i \in 1..Len(calls) :
              /\ IsExtraction(calls[i])
              /\ calls[i].arg = [search |-> popular_searches[i],
                                 n |-> args.max_results \div 4]
        /\ Len(MergedVideos) <= AtLeastZero(args.max_results)
        /\ \A k \in 1..Len(result.val.trending_music) :
              \E i \in 1..Len(calls) :
                  /\ calls[i].out.ok
                  /\ result.val.trending_music[k].category = ReplaceSpaces(popular_searches[i])
        /\ \A i \in 1..Len(calls) :
              ( /\ HasEntries(calls[i])
                /\ \A j \in 1..(i - 1) : ~calls[j].out.ok
                /\ args.max_results > 0
                /\ calls[i].out.val.entries # <<>>
                /\ calls[i].out.val.entries[1] \in {EntA, EntB} )
              => /\ result.val.trending_music # <<>>
                 /\ result.val.trending_music[1].id = calls[i].out.val.entries[1].id

\* the first search failed; the record of the second search was returned
C30_Witness ==
    /\ Returned("get_youtube_homepage_data")
    /\ ~ytmusic
    /\ args.max_results = 4 * MaxHome
    /\ ~calls[1].out.ok
    /\ HasEntries(calls[2])
    /\ calls[2].arg.n = MaxHome
    /\ ~calls[3].out.ok
    /\ HasEntries(calls[4])
    /\ Len(MergedVideos) = 2
    /\ result.val.trending_music[1].category = ReplaceSpaces(popular_searches[2])

\* C31: whenever get_youtube_homepage_data answers with a homepage, on the
\* ytmusicapi path and on the yt-dlp path, for every max_results (0 and
\* negative ones too), total_results is the length of trending_music.
C31_TotalResultsIsTheLength ==
    Returned("get_youtube_homepage_data") /\ result.val # NoneDict =>
        /\ ~result.exc
        /\ result.val.total_results = Len(result.val.trending_music)
        /\ result.val.total_results >= 0

\* the fallback dropped a duplicate and counted the two records that were left
C31_Witness ==
    /\ Returned("get_youtube_homepage_data")
    /\ ~ytmusic
    /\ Len(MergedVideos) = 3
    /\ result.val.total_results = 2
    /\ Len(result.val.trending_music) = 2

\* the ytmusicapi path counted the records of its three steps, for a negative
\* max_results too
C31_WitnessPrimary ==
    /\ Returned("get_youtube_homepage_data")
    /\ ytmusic
    /\ args.max_results = 0 - 1
    /\ result.val.total_results = 1
    /\ Len(result.val.trending_music) = 1

\* the first hit of the lookup of get_song_details is no record of the video
FirstHitRejected(video_id) ==
    /\ IsYtmusicCall(calls[1])
    /\ calls[1].out.ok
    /\ calls[1].out.val # <<>>
    /\ LET hit == calls[1].out.val[1]
       IN  \/ Get(hit, "videoId", NoneStr) # video_id
           \/ Get(hit, "artists", <<>>) # <<>> /\ hit.artists[1] = NoneDict

\* C32: get_song_details answers with a ytmusicapi record only when the url
\* gave a video id and the record's id is that id; when the url gives no id,
\* or the first hit has another id or cannot be converted, no ytmusicapi
\* record is answered and the yt-dlp fetch is made with the url as it came.
C32_SongDetailsChecksTheId ==
    Returned("get_song_details") =>
        LET video_id == _extract_video_id_from_url(args.url)
        IN  /\ result.val # NoneDict /\ FromYtmusic(result.val) =>
                  /\ video_id # NoneStr
                  /\ result.val.id = video_id
                  /\ Len(calls) = 1
                  /\ IsYtmusicCall(calls[1])
                  /\ calls[1].arg = [search |-> video_id, n |-> 1]
            /\ video_id = NoneStr =>
                  /\ calls[1] = Call("ydl.extract_info", "ydl_opts", args.url, calls[1].out)
                  /\ \A i \in 1..Len(calls) : ~IsYtmusicCall(calls[i])
            /\ video_id # NoneStr /\ FirstHitRejected(video_id) =>
                  /\ Len(calls) >= 2
                  /\ calls[2] = Call("ydl.extract_info", "ydl_opts", args.url, calls[2].out)
                  /\ result.val # NoneDict => ~FromYtmusic(result.val)

\* the first hit was another video: the record answered is the one of the
\* yt-dlp fetch of the url
C32_Witness ==
    /\ Returned("get_song_details")
    /\ args.url = [kind |-> "watch", vid |-> "a"]
    /\ Len(calls) = 2
    /\ calls[1].out = Ok(<<YmB, YmA>>)
    /\ calls[2].arg = args.url
    /\ calls[2].out = Ok(EntA)
    /\ result.val # NoneDict
    /\ result.val.id = "a"
    /\ result.val.audio_url = "ua"

\* the info the answer of get_audio_url was taken from
AnsweringInfo == calls[Len(calls)].out.val
TakenFromFormats ==
    /\ Returned("get_audio_url")
    /\ result.val # NoneStr
    /\ calls[Len(calls)].out.ok
    /\ AnsweringInfo # NoneDict
    /\ "url" \notin DOMAIN AnsweringInfo
    /\ "formats" \in DOMAIN AnsweringInfo

\* C33: a url get_audio_url takes from the formats list of an info, on its
\* first fetch or on its fallback fetch, is the url of a format whose acodec
\* is not "none".
C33_AudioUrlIsOfAnAudioFormat ==
    TakenFromFormats =>
        \E i \in 1..Len(AnsweringInfo.formats) :
            /\ "url" \in DOMAIN AnsweringInfo.formats[i]
            /\ AnsweringInfo.formats[i].url = result.val
            /\ Get(AnsweringInfo.formats[i], "acodec", NoneStr) # "none"

\* after a bot-detection failure the fallback fetch answered with the url of
\* the video-only format that stood first in the list
C33_FallbackReturnsVideoOnlyUrl ==
    /\ TakenFromFormats
    /\ Len(calls) = 2
    /\ FailedBotClass(calls[1])
    /\ calls[2].opts = "fallback_opts"
    /\ AnsweringInfo.formats = <<FmtVideo, FmtOpus>>
    /\ result.val = FmtVideo.url

\* a q parameter that is missing, empty or made of blanks only
BlankQuery(q) == q = NoneText \/ \A i \in 1..Len(q) : q[i] = " "

\* C34: /search answers 400, with no gateway and no upstream call made, when
\* its q parameter is missing, empty or blank; for any other q it answers 200
\* with success true and results_count the length of songs, whatever the
\* providers answered.
C34_SearchValidatesTheQuery ==
    Returned("/search") =>
        IF BlankQuery(args.q)
        THEN /\ result.val.status = 400
             /\ invoked = <<>>
             /\ calls = <<>>
        ELSE /\ result.val.status = 200
             /\ result.val.body.success
             /\ result.val.body.results_count = Len(result.val.body.songs)
             /\ Invoked("search_songs")

\* both providers failed a search for " q": 200 with no songs
C34_Witness ==
    /\ Returned("/search")
    /\ args.q = <<" ", "q">>
    /\ Len(calls) = 2
    /\ \A i \in 1..2 : ~calls[i].out.ok
    /\ result.val.status = 200
    /\ result.val.body.results_count = 0
    /\ result.val.body.songs = <<>>

\* an empty q was refused before any call
C34_WitnessEmpty ==
    /\ Returned("/search")
    /\ args.q = <<>>
    /\ result.val.status = 400
    /\ calls = <<>>

\* a search that found songs counts them
C34_WitnessFound ==
    /\ Returned("/search")
    /\ result.val.status = 200
    /\ result.val.body.results_count = 2

====
